---- MODULE Spec2Model ----
(***************************************************************************)
(* Model of the instrument command adapter, drange, the voltage sweep      *)
(* engine and the main script of 02_take_measurements.py, of               *)
(* process_bias_data, of the shutdown script, and of perform_iv_sweep and  *)
(* the sweep of test_006 of the test scripts.                              *)
(*                                                                         *)
(* Python values that may be None are integers, None being -1; every       *)
(* voltage, current, temperature and time of the model is a natural.       *)
(* An exception is the name of its class, NoExc when nothing was raised.   *)
(***************************************************************************)
EXTENDS Integers, Sequences, FiniteSets, TLC

\* ------------------------------------------------------------------ bounds
\* longest sweep list
MaxSweep == 2
\* most failed reads (measure_iv, read_temperature) injected in one sweep
MaxFail == 2

\* ------------------------------------------------------- python, pyvisa
None == -1

NoExc == "none"

\* `except cls`: the classes raised are ValueError, IndexError and pyvisa's
\* VisaIOError; each derives from Exception and from neither of the others
IsInstance(e, cls) == e # NoExc /\ (cls = "Exception" \/ e = cls)

\* the four source-measure units
Instruments == {"drain", "gate", "bulk", "sub"}

\* one instrument I/O event, or one step of the engine (sleep, append, plot)
Event(op, instr, cmd, val) == [op |-> op, instr |-> instr, cmd |-> cmd, val |-> val]

\* instr.write(c) for each command of cmds in turn; failAt = k > 0 makes the
\* k-th write raise VisaIOError (the commands before it were written)
WriteAll(instr, cmds, failAt) ==
    LET n == Len(cmds)
        done == IF failAt \in 1..n THEN failAt - 1 ELSE n
    IN [events |-> [k \in 1..done |-> Event("write", instr, cmds[k][1], cmds[k][2])],
        exc |-> IF failAt \in 1..n THEN "VisaIOError" ELSE NoExc]

\* a response token (a field between commas): a numeral or not
Num(v) == [num |-> TRUE, val |-> v]
Junk == [num |-> FALSE, val |-> 0]

\* what instr.query gives: a timeout (VisaIOError) or the response, stripped
\* and split at its commas
Timeout == [timeout |-> TRUE, data |-> <<>>]
Response(data) == [timeout |-> FALSE, data |-> data]

\* ascii_command_flavor tags, and str.upper / str.lower on them
FlavorTags == {"SCPI", "scpi", "non-SCPI", "NON-SCPI", "legacy"}

Upper(tag) ==
    CASE tag \in {"SCPI", "scpi"} -> "SCPI"
      [] tag \in {"non-SCPI", "NON-SCPI"} -> "NON-SCPI"
      [] OTHER -> "LEGACY"

Lower(tag) ==
    CASE tag \in {"SCPI", "scpi"} -> "scpi"
      [] tag \in {"non-SCPI", "NON-SCPI"} -> "non-scpi"
      [] OTHER -> "legacy"

\* ---------------------------------------------------- configure_instr
\* the SCPI branch with the output switched on before the compliances
ScpiConfigCommands_output_early(sourcing_voltage, current_compliance, voltage_compliance, wire_mode, current_range, disable_front_panel, curr_range_hard_set) ==
    <<<<"*RST", None>>>>
    \o (IF disable_front_panel THEN <<<<":DISP:ENAB OFF", None>>>> ELSE <<>>)
    \o (IF wire_mode = 2 THEN <<<<":SYST:RSEN OFF", None>>>>
        ELSE IF wire_mode = 4 THEN <<<<":SYST:RSEN ON", None>>>>
        ELSE <<>>)
    \o << <<":SOUR:FUNC VOLT", None>>,
          <<":SOUR:VOLT:RANG:AUTO ON", None>>,
          <<":SOUR:VOLT", sourcing_voltage>>,
          <<":OUTP ON", None>>,
          <<":SENS:VOLT:PROT", voltage_compliance>>,
          <<":SENS:FUNC CURR", None>>,
          <<":SENS:CURR:PROT", current_compliance>> >>
    \o (IF curr_range_hard_set
        THEN << <<":SENS:CURR:RANG:AUTO OFF", None>>,
                <<":SENS:CURR:RANG", current_range>> >>
        ELSE << <<":SENS:CURR:RANG:AUTO ON", None>> >>)
    \o << <<":SENS:AVER:COUN 4", None>>,
          <<":SENS:AVER:TCON REP", None>>,
          <<":SENS:AVER:STAT ON", None>> >>

\* the commands of the SCPI branch, as <<command, argument>>
ScpiConfigCommands(sourcing_voltage, current_compliance, voltage_compliance, wire_mode, current_range, disable_front_panel, curr_range_hard_set) ==
    <<<<"*RST", None>>>>
    \o (IF disable_front_panel THEN <<<<":DISP:ENAB OFF", None>>>> ELSE <<>>)
    \o (IF wire_mode = 2 THEN <<<<":SYST:RSEN OFF", None>>>>
        ELSE IF wire_mode = 4 THEN <<<<":SYST:RSEN ON", None>>>>
        ELSE <<>>)
    \o << <<":SOUR:FUNC VOLT", None>>,
          <<":SOUR:VOLT:RANG:AUTO ON", None>>,
          <<":SENS:VOLT:PROT", voltage_compliance>>,
          <<":SOUR:VOLT", sourcing_voltage>>,
          <<":SENS:FUNC CURR", None>>,
          <<":SENS:CURR:PROT", current_compliance>> >>
    \o (IF curr_range_hard_set
        THEN << <<":SENS:CURR:RANG:AUTO OFF", None>>,
                <<":SENS:CURR:RANG", current_range>> >>
        ELSE << <<":SENS:CURR:RANG:AUTO ON", None>> >>)
    \o << <<":SENS:AVER:COUN 4", None>>,
          <<":SENS:AVER:TCON REP", None>>,
          <<":SENS:AVER:STAT ON", None>>,
          <<":OUTP ON", None>> >>

\* the commands of the non-SCPI branch
LegacyConfigCommands(sourcing_voltage, current_compliance) ==
    << <<"F0,0X", None>>,
       <<"B,0,0X", sourcing_voltage>>,
       <<"L,5X", current_compliance>>,
       <<"P2X", None>>,
       <<"R1X", None>>,
       <<"H0X", None>>,
       <<"N1X", None>> >>

\* the try block of configure_instr: the writes made and the exception raised
ConfigureBody(sourcing_voltage, instr, current_compliance, voltage_compliance, flavor, wire_mode, current_range, disable_front_panel, curr_range_hard_set, failAt) ==
    IF flavor = "SCPI"
    THEN WriteAll(instr,
                  ScpiConfigCommands(sourcing_voltage, current_compliance,
                                     voltage_compliance, wire_mode, current_range,
                                     disable_front_panel, curr_range_hard_set),
                  failAt)
    ELSE IF flavor = "non-SCPI"
    THEN WriteAll(instr, LegacyConfigCommands(sourcing_voltage, current_compliance),
                  failAt)
    ELSE [events |-> <<>>, exc |-> "ValueError"]

\* `except ValueError as e: print(e)`: the result of a call whose try block
\* gave b; printed is whether the handler printed its diagnostic
ExceptValueError(b) ==
    IF IsInstance(b.exc, "ValueError")
    THEN [events |-> b.events, printed |-> TRUE, raised |-> NoExc]
    ELSE [events |-> b.events, printed |-> FALSE, raised |-> b.exc]

configure_instr(sourcing_voltage, instr, current_compliance, voltage_compliance, flavor, wire_mode, current_range, disable_front_panel, curr_range_hard_set, failAt) ==
    ExceptValueError(
        ConfigureBody(sourcing_voltage, instr, current_compliance,
                      voltage_compliance, flavor, wire_mode, current_range,
                      disable_front_panel, curr_range_hard_set, failAt))

\* -------------------------------------------------------- set_voltage
SetVoltageBody(sourcing_voltage, instr, flavor, failAt) ==
    IF flavor = "SCPI"
    THEN WriteAll(instr, << <<":SOUR:VOLT", sourcing_voltage>> >>, failAt)
    ELSE IF flavor = "non-SCPI"
    THEN WriteAll(instr, << <<"B,0,0X", sourcing_voltage>> >>, failAt)
    ELSE [events |-> <<>>, exc |-> "ValueError"]

set_voltage(sourcing_voltage, instr, flavor, failAt) ==
    ExceptValueError(SetVoltageBody(sourcing_voltage, instr, flavor, failAt))

\* --------------------------------------------------------- measure_iv
\* float(tok): the value, or ValueError
FloatOk(tok) == tok.num

\* the try block of measure_iv: the I/O made, the pair returned and the
\* exception raised. qo is what instr.query gives.
MeasureBody(instr, flavor, failAt, qo) ==
    IF Upper(flavor) = "SCPI"
    THEN LET ev == <<Event("query", instr, ":READ?", None)>>
             data == qo.data
         IN IF qo.timeout
            THEN [events |-> ev, ret |-> <<None, None>>, exc |-> "VisaIOError"]
            ELSE IF Len(data) < 1
            THEN [events |-> ev, ret |-> <<None, None>>, exc |-> "IndexError"]
            ELSE IF ~FloatOk(data[1])
            THEN [events |-> ev, ret |-> <<None, None>>, exc |-> "ValueError"]
            ELSE IF Len(data) < 2
            THEN [events |-> ev, ret |-> <<None, None>>, exc |-> "IndexError"]
            ELSE IF ~FloatOk(data[2])
            THEN [events |-> ev, ret |-> <<None, None>>, exc |-> "ValueError"]
            ELSE [events |-> ev, ret |-> <<data[1].val, data[2].val>>, exc |-> NoExc]
    ELSE IF Lower(flavor) = "non-scpi"
    THEN LET w == WriteAll(instr, << <<"O1X;G4,2,0X;H0X;", None>> >>, failAt)
             ev == w.events \o <<Event("query", instr, "X", None)>>
             data == qo.data
         IN IF w.exc # NoExc
            THEN [events |-> w.events, ret |-> <<None, None>>, exc |-> w.exc]
            ELSE IF qo.timeout
            THEN [events |-> ev, ret |-> <<None, None>>, exc |-> "VisaIOError"]
            ELSE IF Len(data) # 1 \/ ~FloatOk(data[1])
            THEN [events |-> ev, ret |-> <<None, None>>, exc |-> "ValueError"]
            ELSE [events |-> ev, ret |-> <<None, data[1].val>>, exc |-> NoExc]
    ELSE [events |-> <<>>, ret |-> <<None, None>>, exc |-> "ValueError"]

\* `except Exception as e: print(...); return (None, None)`
ExceptException(b) ==
    IF IsInstance(b.exc, "Exception")
    THEN [events |-> b.events, ret |-> <<None, None>>, printed |-> TRUE, raised |-> NoExc]
    ELSE [events |-> b.events, ret |-> b.ret, printed |-> FALSE, raised |-> b.exc]

\* measure_iv keeping the voltage of a response whose current field cannot
\* be parsed
measure_iv_keeps_voltage(instr, flavor, failAt, qo) ==
    LET r == ExceptException(MeasureBody(instr, flavor, failAt, qo))
    IN IF Upper(flavor) = "SCPI" /\ ~qo.timeout /\ Len(qo.data) >= 2
          /\ qo.data[1].num /\ ~qo.data[2].num
       THEN [r EXCEPT !.ret = <<qo.data[1].val, None>>]
       ELSE r

\* measure_iv with the handler of set_voltage: `except ValueError`
measure_iv_except_value_error(instr, flavor, failAt, qo) ==
    LET b == MeasureBody(instr, flavor, failAt, qo)
    IN IF IsInstance(b.exc, "ValueError")
       THEN [events |-> b.events, ret |-> <<None, None>>, printed |-> TRUE, raised |-> NoExc]
       ELSE [events |-> b.events, ret |-> b.ret, printed |-> FALSE, raised |-> b.exc]

measure_iv(instr, flavor, failAt, qo) ==
    ExceptException(MeasureBody(instr, flavor, failAt, qo))

\* ---------------------------------------------------- read_temperature
\* lakeshore.query(f'KRDG? {channel}') and float(response.strip())
read_temperature(channel, qo) ==
    LET ev == <<Event("query", "lakeshore", "KRDG?", channel)>>
    IN IF qo.timeout
       THEN [events |-> ev, ret |-> None, raised |-> "VisaIOError"]
       ELSE IF Len(qo.data) # 1 \/ ~FloatOk(qo.data[1])
       THEN [events |-> ev, ret |-> None, raised |-> "ValueError"]
       ELSE [events |-> ev, ret |-> qo.data[1].val, raised |-> NoExc]

\* ------------------------------------------------------ the instruments
\* what a healthy instrument measures (voltage, current), per instrument
ReadV(instr) == CASE instr = "drain" -> 11 [] instr = "bulk" -> 21
                  [] instr = "sub" -> 31 [] OTHER -> 41
ReadI(instr) == ReadV(instr) + 1

\* the well-formed response to :READ? (voltage, current, then further fields)
GoodResponse(instr) == Response(<<Num(ReadV(instr)), Num(ReadI(instr)), Num(0)>>)

\* a response measure_iv parses in the SCPI dialect
WellFormed(qo) ==
    /\ ~qo.timeout
    /\ Len(qo.data) >= 2
    /\ qo.data[1].num
    /\ qo.data[2].num

\* what a query of an SMU may give: the reading, a timeout, a truncated
\* response, a response with an unparsable field
QueryOutcomes(instr) ==
    { GoodResponse(instr),
      Timeout,
      Response(<<Num(ReadV(instr))>>),
      Response(<<Junk, Num(ReadI(instr))>>),
      Response(<<Num(ReadV(instr)), Junk>>) }

\* the channels of the temperature controller: 1 is 'A', 2 is 'B'
ChannelA == 1
ChannelB == 2
ReadTemp(channel) == 76 + channel
TempOutcomes(channel) ==
    { Response(<<Num(ReadTemp(channel))>>), Timeout, Response(<<Junk>>) }

\* ------------------------------------- voltage_sweep_three_instruments
VARIABLES
    args,     \* the arguments of the call
    pc,       \* where the call is
    idx,      \* the position of v_value in sweep_voltages (from 1)
    data,     \* the result table
    loc,      \* the local variables of the loop body, Vb_src and Vsub_src
    trace,    \* every instrument write and query, sleep, append and plot, in order
    stdout,   \* the diagnostics printed
    nfail,    \* failed reads so far
    failed,   \* <<k, instr>>: the query of instr at step k failed
    exc,      \* the exception that left the function and where it was raised
    call,     \* adapter harness: the call made
    result,   \* adapter harness: what the call did and returned
    script,   \* the main script: what it holds of the sweep and what it saved
    bias,     \* process_bias_data: the values of a parameter and its locals
    bench     \* the instruments: source and output of each SMU, closed channels

vars == <<args, pc, idx, data, loc, trace, stdout, nfail, failed, exc, call, result, script, bias, bench>>
sweepVars == <<args, idx, data, loc, trace, stdout, nfail, failed, exc, script, bias, bench>>

Roles == {"Vd", "Vg", "Vb"}
FixedVals == {7}
BulkVals == {4}
SubVals == {5}

\* the sweep lists the main script passes are ranges: drange(1, n + 1, 1)
SweepLists == {[k \in 1..n |-> k] : n \in 0..MaxSweep}

ArgSets ==
    [fixed : Roles, variable : Roles, sweep_voltages : SweepLists,
     fixed_voltage : FixedVals, bulk_source_voltage : BulkVals,
     source_substrate_voltage : SubVals, live_plot : BOOLEAN,
     lakeshore : BOOLEAN, start_global : BOOLEAN]

\* the locals before their first assignment
NoLocals ==
    [d_v |-> None, d_i |-> None, b_v |-> None, b_i |-> None,
     sub_v |-> None, sub_i |-> None, g_v |-> None, g_i |-> None,
     Vd_src |-> None, Vg_src |-> None, Vb_src |-> None, Vsub_src |-> None,
     tempA |-> None, tempB |-> None, elapsed_time |-> None]

NoCall == [op |-> "none", flavor |-> "SCPI", sourcing_voltage |-> 0, wire_mode |-> 2,
           disable_front_panel |-> FALSE, curr_range_hard_set |-> FALSE,
           failAt |-> 0, qo |-> Timeout]
NotRaised == [cls |-> NoExc, at |-> "none"]
NoResult == [events |-> <<>>, ret |-> <<None, None>>, printed |-> FALSE, raised |-> NoExc]
\* the instruments as the programs that do not read their state leave them
NoBench ==
    [smu |-> [i \in Instruments |-> [volt |-> 0, output |-> FALSE]],
     mux |-> [top |-> {}, bottom |-> {}]]
\* process_bias_data not called: range_vals is unbound
Unbound == [bound |-> FALSE, vals |-> <<>>]
NoBias == [values |-> <<>>, processed_values |-> <<>>, range_vals |-> Unbound,
           processed_data |-> <<>>]
\* the main script before the sweep returns: output_char_data is unassigned
\* and no file is written
NoOutput == [assigned |-> FALSE, output_char_data |-> <<>>,
             saved |-> FALSE, csv_file |-> <<>>]

Init ==
    /\ args \in ArgSets
    /\ pc = "start"
    /\ idx = 1
    /\ data = <<>>
    /\ loc = NoLocals
    /\ trace = <<>>
    /\ stdout = <<>>
    /\ nfail = 0
    /\ failed = {}
    /\ exc = NotRaised
    /\ call = NoCall
    /\ result = NoResult
    /\ script = NoOutput
    /\ bias = NoBias
    /\ bench = NoBench

\* the instrument of a terminal name
InstrOf(role) == IF role = "Vd" THEN "drain" ELSE "gate"

\* calls r1 then r2 in sequence: r2 is not made when r1 raised
Then(r1, r2) ==
    IF r1.raised # NoExc THEN r1
    ELSE [events |-> r1.events \o r2.events,
          printed |-> r1.printed \/ r2.printed,
          raised |-> r2.raised]

\* what is not a call: events that cannot fail
Plain(events) == [events |-> events, printed |-> FALSE, raised |-> NoExc]

\* the calls r made at pc: their I/O is done, and the function goes on at
\* next unless one of them raised
Proceed(r, next) ==
    /\ trace' = trace \o r.events
    /\ stdout' = IF r.printed THEN Append(stdout, "adapter") ELSE stdout
    /\ IF r.raised # NoExc
       THEN pc' = "raised" /\ exc' = [cls |-> r.raised, at |-> pc]
       ELSE pc' = next /\ exc' = exc

\* lines 339-411: the figure, the empty table and the empty plot arrays
PreparePlot ==
    /\ pc = "start"
    /\ trace' = IF args.live_plot
                THEN Append(trace, Event("plot_open", "figure", "show", None))
                ELSE trace
    /\ pc' = "init_sub"
    /\ UNCHANGED <<args, idx, data, loc, stdout, nfail, failed, exc, call, result, script, bias, bench>>

\* line 414
InitSubstrate ==
    /\ pc = "init_sub"
    /\ \E failAt \in {0, 1} :
         Proceed(set_voltage(args.source_substrate_voltage, "sub", "SCPI", failAt),
                 "init_bulk")
    /\ UNCHANGED <<args, idx, data, loc, nfail, failed, call, result, script, bias, bench>>

\* lines 415-417
InitBulk ==
    /\ pc = "init_bulk"
    /\ \E failAt \in {0, 1} :
         Proceed(set_voltage(args.bulk_source_voltage, "bulk", "SCPI", failAt),
                 "init_fixed")
    /\ loc' = IF pc' = "raised" THEN loc
              ELSE [loc EXCEPT !.Vb_src = args.bulk_source_voltage,
                               !.Vsub_src = args.source_substrate_voltage]
    /\ UNCHANGED <<args, idx, data, nfail, failed, call, result, script, bias, bench>>

\* INIT setting the fixed terminal to 0 V
InitFixed_zero ==
    /\ pc = "init_fixed"
    /\ IF args.fixed \in {"Vd", "Vg"}
       THEN \E failAt \in {0, 1} :
              Proceed(set_voltage(0, InstrOf(args.fixed), "SCPI", failAt),
                      "init_var")
       ELSE /\ stdout' = Append(stdout, "Warning: 'fixed' should be 'Vd' or 'Vg'")
            /\ pc' = "init_var"
            /\ UNCHANGED <<trace, exc>>
    /\ UNCHANGED <<args, idx, data, loc, nfail, failed, call, result, script, bias, bench>>

\* lines 419-425
InitFixed ==
    /\ pc = "init_fixed"
    /\ IF args.fixed \in {"Vd", "Vg"}
       THEN \E failAt \in {0, 1} :
              Proceed(set_voltage(args.fixed_voltage, InstrOf(args.fixed), "SCPI", failAt),
                      "init_var")
       ELSE /\ stdout' = Append(stdout, "Warning: 'fixed' should be 'Vd' or 'Vg'")
            /\ pc' = "init_var"
            /\ UNCHANGED <<trace, exc>>
    /\ UNCHANGED <<args, idx, data, loc, nfail, failed, call, result, script, bias, bench>>

\* INIT leaving the variable terminal where it was
InitVariable_skipped ==
    /\ pc = "init_var"
    /\ pc' = "loop"
    /\ UNCHANGED <<args, idx, data, loc, trace, stdout, nfail, failed, exc, call, result, script, bias, bench>>

\* lines 427-436
InitVariable ==
    /\ pc = "init_var"
    /\ IF args.variable \in {"Vd", "Vg"}
       THEN \E failAt \in {0, 1} :
              Proceed(set_voltage(0, InstrOf(args.variable), "SCPI", failAt), "loop")
       ELSE /\ stdout' = Append(stdout, "Warning: 'variable' should be 'Vd' or 'Vg'")
            /\ pc' = "loop"
            /\ UNCHANGED <<trace, exc>>
    /\ UNCHANGED <<args, idx, data, loc, nfail, failed, call, result, script, bias, bench>>

\* lines 438-445: the next v_value, written to the swept instrument
\* directly, and the settle delay
StepWrite ==
    /\ pc = "loop"
    /\ idx <= Len(args.sweep_voltages)
    /\ \E failAt \in {0, 1} :
         LET target == IF args.variable = "Vd" THEN "drain" ELSE "gate"
             w == WriteAll(target,
                           << <<":SOUR:VOLT:LEV", args.sweep_voltages[idx]>> >>,
                           failAt)
         IN Proceed(Then([events |-> w.events, printed |-> FALSE, raised |-> w.exc],
                         Plain(<<Event("sleep", "time", "settle_delay", None)>>)),
                    "meas_drain")
    /\ UNCHANGED <<args, idx, data, loc, nfail, failed, call, result, script, bias, bench>>

\* Measure asking again when the read failed
Measure_retry(at, instr, vf, cf, next) ==
    /\ pc = at
    /\ \E qo \in QueryOutcomes(instr) :
         /\ WellFormed(qo) \/ nfail < MaxFail
         /\ LET r1 == measure_iv(instr, "SCPI", 0, qo)
                r == IF WellFormed(qo) THEN r1
                     ELSE [r1 EXCEPT !.events = r1.events \o r1.events]
            IN /\ Proceed(r, next)
               /\ loc' = IF r.raised # NoExc THEN loc
                         ELSE [loc EXCEPT ![vf] = r.ret[1], ![cf] = r.ret[2]]
         /\ nfail' = IF WellFormed(qo) THEN nfail ELSE nfail + 1
         /\ failed' = IF WellFormed(qo) THEN failed ELSE failed \cup {<<idx, instr>>}
    /\ UNCHANGED <<args, idx, data, call, result, script, bias, bench>>

\* one of lines 448-451: v, i = measure_iv(instr, 'SCPI'); vf and cf are the
\* locals assigned
Measure(at, instr, vf, cf, next) ==
    /\ pc = at
    /\ \E qo \in QueryOutcomes(instr) :
         /\ WellFormed(qo) \/ nfail < MaxFail
         /\ LET r == measure_iv(instr, "SCPI", 0, qo)
            IN /\ Proceed(r, next)
               /\ loc' = IF r.raised # NoExc THEN loc
                         ELSE [loc EXCEPT ![vf] = r.ret[1], ![cf] = r.ret[2]]
         /\ nfail' = IF WellFormed(qo) THEN nfail ELSE nfail + 1
         /\ failed' = IF WellFormed(qo) THEN failed ELSE failed \cup {<<idx, instr>>}
    /\ UNCHANGED <<args, idx, data, call, result, script, bias, bench>>

MeasureDrain == Measure("meas_drain", "drain", "d_v", "d_i", "meas_bulk")
MeasureBulk == Measure("meas_bulk", "bulk", "b_v", "b_i", "meas_sub")
MeasureSub == Measure("meas_sub", "sub", "sub_v", "sub_i", "meas_gate")
MeasureGate == Measure("meas_gate", "gate", "g_v", "g_i", "temp")


\* the remap without the default of b_v
RemapSources_no_default(l) ==
    LET v_value == args.sweep_voltages[idx]
    IN IF args.fixed = "Vd" /\ args.variable = "Vg"
       THEN [l EXCEPT !.Vd_src = args.fixed_voltage, !.Vg_src = v_value]
       ELSE IF args.fixed = "Vg" /\ args.variable = "Vd"
       THEN [l EXCEPT !.Vg_src = args.fixed_voltage, !.Vd_src = v_value]
       ELSE [l EXCEPT !.Vd_src = 0, !.Vg_src = 0]

\* lines 452-465: the default of b_v and the source voltages of the row
RemapSources(l) ==
    LET bv == IF l.b_v = None THEN args.bulk_source_voltage ELSE l.b_v
        v_value == args.sweep_voltages[idx]
    IN IF args.fixed = "Vd" /\ args.variable = "Vg"
       THEN [l EXCEPT !.b_v = bv, !.Vd_src = args.fixed_voltage, !.Vg_src = v_value]
       ELSE IF args.fixed = "Vg" /\ args.variable = "Vd"
       THEN [l EXCEPT !.b_v = bv, !.Vg_src = args.fixed_voltage, !.Vd_src = v_value]
       ELSE [l EXCEPT !.b_v = bv, !.Vd_src = 0, !.Vg_src = 0]

\* time.time() - start_global: time goes on with every event
Elapsed(tr) == Len(tr)

\* the temperatures without the common fallback: a failed read of B keeps A
SampleTemperature_keeps_A ==
    /\ pc = "temp"
    /\ IF args.lakeshore /\ args.start_global
       THEN \E qa \in TempOutcomes(ChannelA), qb \in TempOutcomes(ChannelB) :
              LET a == read_temperature(ChannelA, qa)
                  b == read_temperature(ChannelB, qb)
                  ev == IF a.raised # NoExc THEN a.events ELSE a.events \o b.events
                  bad == a.raised # NoExc \/ b.raised # NoExc
                  l == RemapSources(loc)
              IN /\ ~bad \/ nfail < MaxFail
                 \* a failed read of A leaves B unread: one outcome of B stands for all
                 /\ a.raised # NoExc => qb = Timeout
                 /\ trace' = trace \o ev
                 /\ nfail' = IF bad THEN nfail + 1 ELSE nfail
                 /\ stdout' = IF bad THEN Append(stdout, "Temperature measurement error:")
                              ELSE stdout
                 /\ loc' = IF bad
                           THEN [l EXCEPT !.tempA = a.ret, !.tempB = None,
                                          !.elapsed_time = None]
                           ELSE [l EXCEPT !.tempA = a.ret, !.tempB = b.ret,
                                          !.elapsed_time = Elapsed(trace')]
       ELSE /\ loc' = [RemapSources(loc) EXCEPT !.tempA = None, !.tempB = None,
                                                !.elapsed_time = None]
            /\ UNCHANGED <<trace, stdout, nfail>>
    /\ pc' = "append"
    /\ UNCHANGED <<args, idx, data, failed, exc, call, result, script, bias, bench>>

\* lines 452-477: the remapping, then the temperatures
SampleTemperature ==
    /\ pc = "temp"
    /\ IF args.lakeshore /\ args.start_global
       THEN \E qa \in TempOutcomes(ChannelA), qb \in TempOutcomes(ChannelB) :
              LET a == read_temperature(ChannelA, qa)
                  b == read_temperature(ChannelB, qb)
                  ev == IF a.raised # NoExc THEN a.events ELSE a.events \o b.events
                  bad == a.raised # NoExc \/ b.raised # NoExc
                  l == RemapSources(loc)
              IN /\ ~bad \/ nfail < MaxFail
                 \* a failed read of A leaves B unread: one outcome of B stands for all
                 /\ a.raised # NoExc => qb = Timeout
                 /\ trace' = trace \o ev
                 /\ nfail' = IF bad THEN nfail + 1 ELSE nfail
                 /\ stdout' = IF bad THEN Append(stdout, "Temperature measurement error:")
                              ELSE stdout
                 /\ loc' = IF bad
                           THEN [l EXCEPT !.tempA = None, !.tempB = None,
                                          !.elapsed_time = None]
                           ELSE [l EXCEPT !.tempA = a.ret, !.tempB = b.ret,
                                          !.elapsed_time = Elapsed(trace')]
       ELSE /\ loc' = [RemapSources(loc) EXCEPT !.tempA = None, !.tempB = None,
                                                !.elapsed_time = None]
            /\ UNCHANGED <<trace, stdout, nfail>>
    /\ pc' = "append"
    /\ UNCHANGED <<args, idx, data, failed, exc, call, result, script, bias, bench>>

\* the tuple with the drain and the bulk current in each other's place
MakeRow_swapped(l) ==
    << l.Vd_src, l.Vg_src, l.Vb_src, l.Vsub_src,
       l.b_i, l.d_i, l.sub_i, l.g_i,
       l.d_v, l.b_v, l.sub_v, l.g_v,
       l.tempA, l.tempB, l.elapsed_time >>

\* lines 479-485: the 15-tuple
MakeRow(l) ==
    << l.Vd_src, l.Vg_src, l.Vb_src, l.Vsub_src,
       l.d_i, l.b_i, l.sub_i, l.g_i,
       l.d_v, l.b_v, l.sub_v, l.g_v,
       l.tempA, l.tempB, l.elapsed_time >>

\* the live plot reading the drain again for its redraw
AppendRow_plot_reads ==
    /\ pc = "append"
    /\ data' = Append(data, MakeRow(loc))
    /\ trace' = trace \o <<Event("append", "data", "row", Len(data) + 1)>>
                \o (IF args.live_plot
                    THEN <<Event("query", "drain", ":READ?", None),
                           Event("plot", "figure", "draw", idx)>>
                    ELSE <<>>)
    /\ idx' = idx + 1
    /\ pc' = "loop"
    /\ UNCHANGED <<args, loc, stdout, nfail, failed, exc, call, result, script, bias, bench>>

\* lines 479-525: the row is appended, the live plot redrawn, and the loop
\* goes on to the next v_value
AppendRow ==
    /\ pc = "append"
    /\ data' = Append(data, MakeRow(loc))
    /\ trace' = trace \o <<Event("append", "data", "row", Len(data) + 1)>>
                \o (IF args.live_plot
                    THEN <<Event("plot", "figure", "draw", idx)>>
                    ELSE <<>>)
    /\ idx' = idx + 1
    /\ pc' = "loop"
    /\ UNCHANGED <<args, loc, stdout, nfail, failed, exc, call, result, script, bias, bench>>

\* FINALIZE zeroing the bulk and the substrate as well
Finalize_zeroes_all ==
    /\ pc = "loop"
    /\ idx > Len(args.sweep_voltages)
    /\ \E f1 \in {0, 1}, f2 \in {0, 1} :
         Proceed(Then(set_voltage(0, "drain", "SCPI", f1),
                 Then(set_voltage(0, "gate", "SCPI", f2),
                 Then(set_voltage(0, "bulk", "SCPI", 0),
                 Then(set_voltage(0, "sub", "SCPI", 0),
                      Plain(<<Event("sleep", "time", "0.01", None)>>))))),
                 "done")
    /\ UNCHANGED <<args, idx, data, loc, nfail, failed, call, result, script, bias, bench>>

\* FINALIZE zeroing the drain alone
Finalize_drain_only ==
    /\ pc = "loop"
    /\ idx > Len(args.sweep_voltages)
    /\ \E f1 \in {0, 1} :
         Proceed(Then(set_voltage(0, "drain", "SCPI", f1),
                      Plain(<<Event("sleep", "time", "0.01", None)>>)),
                 "done")
    /\ UNCHANGED <<args, idx, data, loc, nfail, failed, call, result, script, bias, bench>>

\* lines 527-534, once sweep_voltages is exhausted: drain and gate back to
\* 0 V, the figure closed, data returned
Finalize ==
    /\ pc = "loop"
    /\ idx > Len(args.sweep_voltages)
    /\ \E f1 \in {0, 1}, f2 \in {0, 1} :
         Proceed(Then(set_voltage(0, "drain", "SCPI", f1),
                 Then(set_voltage(0, "gate", "SCPI", f2),
                      Plain(<<Event("sleep", "time", "0.01", None)>>
                            \o (IF args.live_plot
                                THEN <<Event("plot_close", "figure", "close", None)>>
                                ELSE <<>>)))),
                 "done")
    /\ UNCHANGED <<args, idx, data, loc, nfail, failed, call, result, script, bias, bench>>

Next ==
    \/ PreparePlot
    \/ InitSubstrate
    \/ InitBulk
    \/ InitFixed
    \/ InitVariable
    \/ StepWrite
    \/ MeasureDrain
    \/ MeasureBulk
    \/ MeasureSub
    \/ MeasureGate
    \/ SampleTemperature
    \/ AppendRow
    \/ Finalize

Spec == Init /\ [][Next]_vars

\* ------------------------------ the main script around one sweep
\* a row holds None
HasNone(rows) == \E i \in DOMAIN rows : \E k \in DOMAIN rows[i] : rows[i][k] = None

\* lines 988-1052: the sweep returned, its rows are bound to
\* output_char_data, the first of them is read for the constant-voltage
\* section (IndexError when there is none) and all are saved with the
\* header. np.savetxt formats every field as a float: whether it writes a
\* table that holds None or raises is left open.
SaveOutput ==
    /\ pc = "done"
    /\ IF data = <<>>
       THEN /\ pc' = "raised"
            /\ exc' = [cls |-> "IndexError", at |-> pc]
            /\ script' = [script EXCEPT !.assigned = TRUE, !.output_char_data = data]
       ELSE \E written \in (IF HasNone(data) THEN BOOLEAN ELSE {TRUE}) :
              IF written
              THEN /\ pc' = "saved"
                   /\ exc' = exc
                   /\ script' = [assigned |-> TRUE, output_char_data |-> data,
                                 saved |-> TRUE, csv_file |-> data]
              ELSE /\ pc' = "raised"
                   /\ exc' = [cls |-> "TypeError", at |-> pc]
                   /\ script' = [script EXCEPT !.assigned = TRUE, !.output_char_data = data]
    /\ UNCHANGED <<args, idx, data, loc, trace, stdout, nfail, failed, call, result, bias, bench>>

\* the final zeroing without the bulk
ZeroAll_skips_bulk ==
    /\ pc = "saved"
    /\ \E f1 \in {0, 1}, f3 \in {0, 1}, f4 \in {0, 1} :
         Proceed(Then(set_voltage(0, "gate", "SCPI", f1),
                 Then(set_voltage(0, "drain", "SCPI", f3),
                      set_voltage(0, "sub", "SCPI", f4))),
                 "end")
    /\ UNCHANGED <<args, idx, data, loc, nfail, failed, call, result, script, bias, bench>>

\* lines 1182-1186: the sweeps of the transistor done, the four SMUs are
\* set to 0 V: gate, bulk, drain, substrate
ZeroAll ==
    /\ pc = "saved"
    /\ \E f1 \in {0, 1}, f2 \in {0, 1}, f3 \in {0, 1}, f4 \in {0, 1} :
         Proceed(Then(set_voltage(0, "gate", "SCPI", f1),
                 Then(set_voltage(0, "bulk", "SCPI", f2),
                 Then(set_voltage(0, "drain", "SCPI", f3),
                      set_voltage(0, "sub", "SCPI", f4)))),
                 "end")
    /\ UNCHANGED <<args, idx, data, loc, nfail, failed, call, result, script, bias, bench>>

NextMain ==
    \/ Next
    \/ SaveOutput
    \/ ZeroAll

SpecMain == Init /\ [][NextMain]_vars

\* ------------------------------------------------- the adapter, called alone
\* the defaults of configure_instr, currents in mA
DefaultCurrentCompliance == 105
DefaultVoltageCompliance == 27
DefaultCurrentRange == 1

\* the longest command list of configure_instr
LongestConfig == Len(ScpiConfigCommands(0, 0, 0, 2, 0, TRUE, TRUE))

\* what a query may give a caller of measure_iv: also the one-field response
\* of the legacy dialect, well formed or not
AdapterQueryOutcomes == QueryOutcomes("drain") \cup {Response(<<Junk>>)}

\* the caller after the call: it goes on, or the exception reaches it
AfterCall(r) == IF r.raised # NoExc THEN "raised" ELSE "returned"

\* a call of configure_instr or set_voltage returns nothing
ReturnsNone(r) ==
    [events |-> r.events, ret |-> <<None, None>>, printed |-> r.printed,
     raised |-> r.raised]

InitAdapter ==
    /\ args = [fixed |-> "Vg", variable |-> "Vd", sweep_voltages |-> <<>>,
               fixed_voltage |-> 0, bulk_source_voltage |-> 0,
               source_substrate_voltage |-> 0, live_plot |-> FALSE,
               lakeshore |-> FALSE, start_global |-> FALSE]
    /\ pc = "idle"
    /\ idx = 1
    /\ data = <<>>
    /\ loc = NoLocals
    /\ trace = <<>>
    /\ stdout = <<>>
    /\ nfail = 0
    /\ failed = {}
    /\ exc = NotRaised
    /\ call = NoCall
    /\ result = NoResult
    /\ script = NoOutput
    /\ bias = NoBias
    /\ bench = NoBench

CallConfigure ==
    /\ pc = "idle"
    /\ \E flavor \in FlavorTags, v \in {0, 3}, wire_mode \in {2, 3, 4},
          dfp \in BOOLEAN, hard \in BOOLEAN, failAt \in 0..LongestConfig :
         /\ call' = [op |-> "configure_instr", flavor |-> flavor, sourcing_voltage |-> v,
                     wire_mode |-> wire_mode, disable_front_panel |-> dfp,
                     curr_range_hard_set |-> hard, failAt |-> failAt, qo |-> Timeout]
         /\ result' = ReturnsNone(
                configure_instr(v, "drain", DefaultCurrentCompliance,
                                DefaultVoltageCompliance, flavor, wire_mode,
                                DefaultCurrentRange, dfp, hard, failAt))
    /\ pc' = AfterCall(result')
    /\ UNCHANGED sweepVars

CallSetVoltage ==
    /\ pc = "idle"
    /\ \E flavor \in FlavorTags, v \in {0, 3}, failAt \in {0, 1} :
         /\ call' = [NoCall EXCEPT !.op = "set_voltage", !.flavor = flavor,
                                   !.sourcing_voltage = v, !.failAt = failAt]
         /\ result' = ReturnsNone(set_voltage(v, "drain", flavor, failAt))
    /\ pc' = AfterCall(result')
    /\ UNCHANGED sweepVars

CallMeasure ==
    /\ pc = "idle"
    /\ \E flavor \in FlavorTags, failAt \in {0, 1}, qo \in AdapterQueryOutcomes :
         /\ call' = [NoCall EXCEPT !.op = "measure_iv", !.flavor = flavor,
                                   !.failAt = failAt, !.qo = qo]
         /\ result' = measure_iv("drain", flavor, failAt, qo)
    /\ pc' = AfterCall(result')
    /\ UNCHANGED sweepVars

NextAdapter ==
    \/ CallConfigure
    \/ CallSetVoltage
    \/ CallMeasure

SpecAdapter == InitAdapter /\ [][NextAdapter]_vars

\* ------------------------------------------------ the rows and the header
\* the fields of the returned tuple, as the docstring lists them (line 337)
ColumnNames ==
    << "Vd_src", "Vg_src", "Vb_src", "Vsub_src", "Id", "Ib", "Isub", "Ig",
       "Vd_meas", "Vb_meas", "Vsub_meas", "Vg_meas", "TempA", "TempB",
       "Elapsed_time" >>

\* the header np.savetxt writes as the first line of the 15-column file
\* (lines 1049-1050), character by character
HeaderText ==
    << "V", "d", "_", "s", "r", "c", ",", " ", "V", "g", "_", "s",
       "r", "c", ",", " ", "V", "b", "_", "s", "r", "c", ",", "V",
       "s", "u", "b", "_", "s", "r", "c", ",", " ", "I", "d", ",",
       " ", "I", "b", ",", " ", "I", "s", "u", "b", ",", " ", "I",
       "g", ",", " ", "V", "d", "_", "m", "e", "a", "s", ",", " ",
       "V", "b", "_", "m", "e", "a", "s", ",", " ", "V", "s", "u",
       "b", "_", "m", "e", "a", "s", ",", " ", "V", "g", "_", "m",
       "e", "a", "s", ",", "T", "e", "m", "p", "A", ",", "T", "e",
       "m", "p", "B", ",", "E", "l", "a", "p", "s", "e", "d", "_",
       "t", "i", "m", "e" >>

\* text.split(sep): the fields between the separators
RECURSIVE SplitAt(_, _, _)
SplitAt(text, sep, cur) ==
    IF text = <<>> THEN <<cur>>
    ELSE IF Head(text) = sep THEN <<cur>> \o SplitAt(Tail(text), sep, <<>>)
    ELSE SplitAt(Tail(text), sep, Append(cur, Head(text)))

Split(text, sep) == SplitAt(text, sep, <<>>)

\* field.strip(): without the blanks around it
RECURSIVE LStrip(_)
LStrip(f) == IF f # <<>> /\ Head(f) = " " THEN LStrip(Tail(f)) ELSE f

RECURSIVE RStrip(_)
RStrip(f) == IF f # <<>> /\ f[Len(f)] = " " THEN RStrip(SubSeq(f, 1, Len(f) - 1)) ELSE f

Strip(f) == RStrip(LStrip(f))

\* the column names a reader of the file finds in its header
HeaderColumns ==
    LET fields == Split(HeaderText, ",")
    IN [k \in 1..Len(fields) |-> Strip(fields[k])]

\* ================================================================ claims
\* the tags measure_iv takes for a dialect it supports
ScpiTag(tag) == Upper(tag) = "SCPI"
LegacyTag(tag) == Lower(tag) = "non-scpi"

\* the legacy dialect's response: one numeral, the current
LegacyWellFormed(qo) == ~qo.timeout /\ Len(qo.data) = 1 /\ qo.data[1].num

\* C2 (as claimed): configure_instr, set_voltage and measure_iv never let a
\* failure escape: whatever the write or the query raises, the call returns
\* normally.
C2_NoFailureEscapes ==
    call.op \in {"configure_instr", "set_voltage", "measure_iv"}
        => result.raised = NoExc /\ pc = "returned"

\* C3 (as claimed): for each supported dialect measure_iv returns a pair read
\* from the instrument or (None, None), never a pair with exactly one None.
C3_TwoOutcomes ==
    (call.op = "measure_iv" /\ pc = "returned"
     /\ (ScpiTag(call.flavor) \/ LegacyTag(call.flavor)))
        => \/ result.ret = <<None, None>>
           \/ result.ret[1] # None /\ result.ret[2] # None

\* C3 (amended): in the SCPI dialect measure_iv returns (voltage, current),
\* both read from the instrument, or (None, None) when the query fails or
\* the response cannot be parsed; in the legacy dialect, which reads no
\* voltage, it returns (None, current) or (None, None); it never returns a
\* voltage without a current.
C3_OutcomesPerDialect ==
    (call.op = "measure_iv" /\ pc = "returned")
        => /\ ScpiTag(call.flavor) =>
                IF WellFormed(call.qo)
                THEN result.ret = <<call.qo.data[1].val, call.qo.data[2].val>>
                ELSE result.ret = <<None, None>> /\ result.printed
           /\ LegacyTag(call.flavor) =>
                IF call.failAt = 0 /\ LegacyWellFormed(call.qo)
                THEN result.ret = <<None, call.qo.data[1].val>>
                ELSE result.ret = <<None, None>> /\ result.printed
           /\ ~(result.ret[1] # None /\ result.ret[2] = None)

\* C3 witness: a legacy-dialect measurement that succeeded, and a SCPI one
\* is the other case of the same run
C3_Witness ==
    /\ call.op = "measure_iv"
    /\ pc = "returned"
    /\ call.flavor = "non-SCPI"
    /\ result.ret[1] = None
    /\ result.ret[2] = ReadV("drain")

\* ----------------------------------------------- reading rows and traces
\* a column name, character by character
Spell(name) ==
    CASE name = "Vd_src" -> << "V", "d", "_", "s", "r", "c" >>
      [] name = "Vg_src" -> << "V", "g", "_", "s", "r", "c" >>
      [] name = "Vb_src" -> << "V", "b", "_", "s", "r", "c" >>
      [] name = "Vsub_src" -> << "V", "s", "u", "b", "_", "s", "r", "c" >>
      [] name = "Id" -> << "I", "d" >>
      [] name = "Ib" -> << "I", "b" >>
      [] name = "Isub" -> << "I", "s", "u", "b" >>
      [] name = "Ig" -> << "I", "g" >>
      [] name = "Vd_meas" -> << "V", "d", "_", "m", "e", "a", "s" >>
      [] name = "Vb_meas" -> << "V", "b", "_", "m", "e", "a", "s" >>
      [] name = "Vsub_meas" -> << "V", "s", "u", "b", "_", "m", "e", "a", "s" >>
      [] name = "Vg_meas" -> << "V", "g", "_", "m", "e", "a", "s" >>
      [] name = "TempA" -> << "T", "e", "m", "p", "A" >>
      [] name = "TempB" -> << "T", "e", "m", "p", "B" >>
      [] name = "Elapsed_time" -> << "E", "l", "a", "p", "s", "e", "d", "_", "t", "i", "m", "e" >>

ColIndex(name) == CHOOSE k \in 1..Len(ColumnNames) : ColumnNames[k] = name
Field(row, name) == row[ColIndex(name)]

\* the local variable a column reports
Meaning(name) ==
    CASE name = "Id" -> "d_i" [] name = "Ib" -> "b_i"
      [] name = "Isub" -> "sub_i" [] name = "Ig" -> "g_i"
      [] name = "Vd_meas" -> "d_v" [] name = "Vb_meas" -> "b_v"
      [] name = "Vsub_meas" -> "sub_v" [] name = "Vg_meas" -> "g_v"
      [] name = "TempA" -> "tempA" [] name = "TempB" -> "tempB"
      [] name = "Elapsed_time" -> "elapsed_time"
      [] OTHER -> name

CurrentCol(instr) ==
    CASE instr = "drain" -> "Id" [] instr = "bulk" -> "Ib"
      [] instr = "sub" -> "Isub" [] OTHER -> "Ig"
VoltageCol(instr) ==
    CASE instr = "drain" -> "Vd_meas" [] instr = "bulk" -> "Vb_meas"
      [] instr = "sub" -> "Vsub_meas" [] OTHER -> "Vg_meas"

\* the instrument that sources a terminal
TerminalInstr(role) == CASE role = "Vd" -> "drain" [] role = "Vg" -> "gate"

ValidRoles ==
    /\ args.fixed \in {"Vd", "Vg"}
    /\ args.variable \in {"Vd", "Vg"}
    /\ args.fixed # args.variable

IsWrite(e) == e.op = "write"
IsVoltageWrite(e) == e.op = "write" /\ e.cmd \in {":SOUR:VOLT", ":SOUR:VOLT:LEV"}
IsStepWrite(e) == e.op = "write" /\ e.cmd = ":SOUR:VOLT:LEV"
SetTo(instr, v) == Event("write", instr, ":SOUR:VOLT", v)

\* where the swept voltages were written
StepPositions == {k \in DOMAIN trace : IsStepWrite(trace[k])}
MinOf(S) == CHOOSE m \in S : \A x \in S : m <= x
MaxOf(S) == CHOOSE m \in S : \A x \in S : m >= x
NthStep(k) == CHOOSE p \in StepPositions :
                 Cardinality({q \in StepPositions : q <= p}) = k

\* the last voltage commanded on an instrument, None when there was none
LastVoltage(instr) ==
    LET ks == {k \in DOMAIN trace : IsVoltageWrite(trace[k]) /\ trace[k].instr = instr}
    IN IF ks = {} THEN None ELSE trace[MaxOf(ks)].val

\* the function is within a sweep step
InStep == pc \in {"meas_drain", "meas_bulk", "meas_sub", "meas_gate", "temp", "append"}

\* ---------------------------------------------------------------- C1
\* C1 (as claimed): whatever reads fail, the sweep returns one row per sweep
\* value and every reading that failed is None in the row of its point.
C1_FailedReadsAreNone ==
    /\ pc = "raised" => exc.at \notin {"meas_drain", "meas_bulk", "meas_sub", "meas_gate"}
    /\ pc = "done" => Len(data) = Len(args.sweep_voltages)
    /\ \A f \in failed :
         f[1] <= Len(data) =>
            /\ Field(data[f[1]], CurrentCol(f[2])) = None
            /\ Field(data[f[1]], VoltageCol(f[2])) = None

\* C1 (amended): whatever reads fail, no failed read ends the sweep, it
\* returns one row per sweep value, and a reading that failed is None in the
\* current and in the measured voltage of its point, except that a failed
\* bulk reading records bulk_source_voltage as Vb_meas.
C1_SweepSurvivesFailedReads ==
    /\ pc = "raised" => exc.at \notin {"meas_drain", "meas_bulk", "meas_sub", "meas_gate"}
    /\ pc = "done" => Len(data) = Len(args.sweep_voltages)
    /\ \A f \in failed :
         f[1] <= Len(data) =>
            /\ Field(data[f[1]], CurrentCol(f[2])) = None
            /\ f[2] # "bulk" => Field(data[f[1]], VoltageCol(f[2])) = None
            /\ f[2] = "bulk" => Field(data[f[1]], "Vb_meas") = args.bulk_source_voltage

\* C1 witness: a sweep of two points returned with a failed drain read in
\* the first and a failed bulk read in the second
C1_Witness ==
    /\ ValidRoles
    /\ pc = "done"
    /\ Len(data) = 2
    /\ failed = {<<1, "drain">>, <<2, "bulk">>}

\* ---------------------------------------------------------------- C4
\* C4 (as claimed): no sweep step runs while fixed equals variable or one of
\* them is no name of {Vd, Vg}.
C4_StepsOnlyWithValidRoles ==
    (InStep \/ StepPositions # {} \/ Len(data) > 0) => ValidRoles

\* ---------------------------------------------------------------- C5
\* C5: after INIT no voltage is set on the bulk or the substrate instrument
\* (every such write precedes every sleep, query, append, plot and every
\* write to drain or gate), and every row carries Vb_src = bulk_source_voltage
\* and Vsub_src = source_substrate_voltage.
C5_BulkSubstrateHeld ==
    /\ \A k \in DOMAIN trace :
         (IsVoltageWrite(trace[k]) /\ trace[k].instr \in {"bulk", "sub"})
            => \A j \in 1..(k - 1) :
                  \/ trace[j].op = "plot_open"
                  \/ IsWrite(trace[j]) /\ trace[j].instr \in {"bulk", "sub"}
    /\ \A k \in DOMAIN trace :
         (IsWrite(trace[k]) /\ trace[k].instr = "bulk") => trace[k] = SetTo("bulk", args.bulk_source_voltage)
    /\ \A k \in DOMAIN trace :
         (IsWrite(trace[k]) /\ trace[k].instr = "sub") => trace[k] = SetTo("sub", args.source_substrate_voltage)
    /\ \A i \in DOMAIN data :
         /\ Field(data[i], "Vb_src") = args.bulk_source_voltage
         /\ Field(data[i], "Vsub_src") = args.source_substrate_voltage

\* C5 witness: a returned sweep of two points with a bulk bias
C5_Witness ==
    /\ ValidRoles
    /\ pc = "done"
    /\ Len(data) = 2
    /\ args.bulk_source_voltage # 0
    /\ LastVoltage("bulk") = args.bulk_source_voltage

\* ---------------------------------------------------------------- C6
\* C6: when the first swept voltage is written, the writes made before it
\* are: bulk and substrate set to their voltages, then the fixed terminal's
\* instrument set to fixed_voltage, then the variable terminal's instrument
\* set to 0 V (a role that names no terminal of {Vd, Vg} has no instrument).
C6_InitPrecedesSteps ==
    StepPositions # {} =>
       LET first == MinOf(StepPositions)
           w == SelectSeq(SubSeq(trace, 1, first - 1), IsWrite)
       IN /\ Len(w) >= 2
          /\ {w[1], w[2]} = {SetTo("bulk", args.bulk_source_voltage),
                             SetTo("sub", args.source_substrate_voltage)}
          /\ SubSeq(w, 3, Len(w))
               = (IF args.fixed \in {"Vd", "Vg"}
                  THEN <<SetTo(TerminalInstr(args.fixed), args.fixed_voltage)>>
                  ELSE <<>>)
                 \o (IF args.variable \in {"Vd", "Vg"}
                     THEN <<SetTo(TerminalInstr(args.variable), 0)>>
                     ELSE <<>>)

\* C6 witness: the first swept gate voltage is written, the drain being fixed
C6_Witness ==
    /\ ValidRoles
    /\ args.fixed = "Vd"
    /\ pc = "meas_drain"
    /\ Cardinality(StepPositions) = 1

\* ---------------------------------------------------------------- C7
\* C7 (as claimed): when the function returns, every sourced terminal
\* (drain, gate, bulk, substrate) has been commanded to 0 V.
C7_AllTerminalsZeroed ==
    pc = "done" => \A instr \in Instruments : LastVoltage(instr) = 0

\* C7 (amended): after the last step and before it returns, the function
\* commands the drain and the gate instrument to 0 V; the bulk and the
\* substrate instrument are left at the voltages INIT set.
C7_DrainGateZeroed ==
    pc = "done" =>
       LET w == SelectSeq(trace, IsWrite)
           n == Len(w)
           events == {k \in DOMAIN trace : trace[k].op \in {"append", "plot", "query"}
                                           \/ IsStepWrite(trace[k])}
           zeroes == {k \in DOMAIN trace : trace[k] \in {SetTo("drain", 0), SetTo("gate", 0)}}
       IN /\ n >= 2
          /\ {w[n - 1], w[n]} = {SetTo("drain", 0), SetTo("gate", 0)}
          /\ \E a, b \in zeroes :
                /\ trace[a] = SetTo("drain", 0)
                /\ trace[b] = SetTo("gate", 0)
                /\ \A k \in events : k < a /\ k < b
          /\ LastVoltage("bulk") = args.bulk_source_voltage
          /\ LastVoltage("sub") = args.source_substrate_voltage

\* C7 witness: a sweep of two points has returned, the bulk still biased
C7_Witness ==
    /\ ValidRoles
    /\ pc = "done"
    /\ Len(data) = 2
    /\ LastVoltage("drain") = 0
    /\ LastVoltage("gate") = 0
    /\ LastVoltage("bulk") # 0

\* ---------------------------------------------------------------- C8
\* the events of step k after the write of its swept voltage, for each way
\* the temperature sampling may go: the settle delay, one query of each of
\* the four instruments, the temperature queries (B unread when A failed),
\* the row, the plot
StepQueries ==
    << Event("sleep", "time", "settle_delay", None),
       Event("query", "drain", ":READ?", None),
       Event("query", "bulk", ":READ?", None),
       Event("query", "sub", ":READ?", None),
       Event("query", "gate", ":READ?", None) >>

TempVariants ==
    IF args.lakeshore /\ args.start_global
    THEN { <<Event("query", "lakeshore", "KRDG?", ChannelA)>>,
           <<Event("query", "lakeshore", "KRDG?", ChannelA),
             Event("query", "lakeshore", "KRDG?", ChannelB)>> }
    ELSE { <<>> }

StepTails(k) ==
    { StepQueries \o t \o <<Event("append", "data", "row", k)>>
        \o (IF args.live_plot THEN <<Event("plot", "figure", "draw", k)>> ELSE <<>>)
      : t \in TempVariants }

IsPrefix(a, b) == Len(a) <= Len(b) /\ a = SubSeq(b, 1, Len(a))

\* the events of step k: from the write of its swept voltage to the next
\* voltage written (the next step's, or FINALIZE's)
StepBlock(k) ==
    LET p == NthStep(k)
        later == {q \in (p + 1)..Len(trace) : IsVoltageWrite(trace[q])}
    IN SubSeq(trace, p, IF later = {} THEN Len(trace) ELSE MinOf(later) - 1)

\* C8: every step is the write of the next swept voltage to the variable
\* terminal's instrument, the settle delay, one query of each instrument,
\* the optional temperature samples, the row, the plot update, in this
\* order; a step that is over has all of them, before the next swept voltage
\* is written, and the step in progress has a prefix of them.
C8_StepOrder ==
    LET n == Cardinality(StepPositions)
    IN /\ n <= Len(args.sweep_voltages)
       /\ pc = "done" => n = Len(args.sweep_voltages)
       /\ \A k \in 1..n :
            LET b == StepBlock(k)
                over == k < n \/ pc \in {"loop", "done"}
                        \/ (pc = "raised" /\ exc.at = "loop")
            IN /\ b[1].val = args.sweep_voltages[k]
               /\ args.variable \in {"Vd", "Vg"} => b[1].instr = TerminalInstr(args.variable)
               /\ IF over
                  THEN Tail(b) \in StepTails(k)
                  ELSE \E t \in StepTails(k) : IsPrefix(Tail(b), t)

\* C8 witness: the second step begins after a first step with a failed read,
\* a temperature sample, its row and its plot update
C8_Witness ==
    /\ ValidRoles
    /\ pc = "meas_drain"
    /\ idx = 2
    /\ args.live_plot
    /\ Len(data) = 1
    /\ Field(data[1], "TempA") # None
    /\ <<1, "sub">> \in failed

\* ---------------------------------------------------------------- C9
\* what a row must record of the sources, by the roles
RowRecordsSweep(i) ==
    /\ args.variable = "Vg" => Field(data[i], "Vg_src") = args.sweep_voltages[i]
    /\ args.variable = "Vd" => Field(data[i], "Vd_src") = args.sweep_voltages[i]
    /\ args.fixed = "Vg" => Field(data[i], "Vg_src") = args.fixed_voltage
    /\ args.fixed = "Vd" => Field(data[i], "Vd_src") = args.fixed_voltage

RowsSoFar ==
    /\ Len(data) <= Len(args.sweep_voltages)
    /\ Len(data) = Cardinality({k \in DOMAIN trace : trace[k].op = "append"})
    /\ \A i \in DOMAIN data : RowRecordsSweep(i)

\* no step changes, reorders or removes a row, and a step adds one row
RowsOnlyAppended ==
    /\ Len(data') \in {Len(data), Len(data) + 1}
    /\ SubSeq(data', 1, Len(data)) = data

\* C9 (as claimed): after k steps the table holds k rows, row i records
\* sweep_voltages[i] as the source voltage of the swept terminal and
\* fixed_voltage as that of the fixed terminal, and no later step changes,
\* reorders or removes a row.
C9_RowsRecordSweep == [][RowsSoFar' /\ RowsOnlyAppended]_vars

SweepSites ==
    {"init_sub", "init_bulk", "init_fixed", "init_var", "loop",
     "meas_drain", "meas_bulk", "meas_sub", "meas_gate", "temp", "append"}

\* C11 (as claimed): when an error leaves voltage_sweep_three_instruments at
\* step k, the rows appended before it are still available, in the
\* script's output_char_data or in the file it saves.
C11_PartialRowsKept ==
    (pc = "raised" /\ exc.at \in SweepSites /\ Len(data) > 0) =>
        \/ script.assigned /\ script.output_char_data = data
        \/ script.saved /\ script.csv_file = data

\* ------------------------------------------------- process_bias_data
\* A str is the tuple of its characters; a float is a whole number of tenths.
\* The texts of the model hold signs, digits and at most one decimal.
DigitChars == << "0", "1", "2", "3", "4", "5", "6", "7", "8", "9" >>
IsDigit(c) == \E d \in 1..10 : DigitChars[d] = c
DigitVal(c) == (CHOOSE d \in 1..10 : DigitChars[d] = c) - 1

RECURSIVE DecVal(_)
DecVal(ds) == IF ds = <<>> THEN 0 ELSE DecVal(SubSeq(ds, 1, Len(ds) - 1)) * 10 + DigitVal(ds[Len(ds)])

\* float(text): blanks around it ignored, ValueError when it is no numeral
ParseFloat(text) ==
    LET t == Strip(text)
        neg == t # <<>> /\ Head(t) = "-"
        u == IF neg THEN Tail(t) ELSE t
        parts == Split(u, ".")
        ip == parts[1]
        fp == IF Len(parts) >= 2 THEN parts[2] ELSE <<>>
        ok == /\ Len(parts) <= 2
              /\ \A k \in 1..Len(ip) : IsDigit(ip[k])
              /\ \A k \in 1..Len(fp) : IsDigit(fp[k])
              /\ Len(ip) + Len(fp) > 0
              /\ Len(fp) <= 1
        mag == DecVal(ip) * 10 + (IF fp = <<>> THEN 0 ELSE DigitVal(fp[1]))
    IN IF ok THEN [ok |-> TRUE, val |-> IF neg THEN 0 - mag ELSE mag]
       ELSE [ok |-> FALSE, val |-> 0]

\* sub occurs in text at position i
StartsAt(text, i, sub) ==
    i + Len(sub) - 1 <= Len(text) /\ SubSeq(text, i, i + Len(sub) - 1) = sub

\* text.find(sub), from 1; 0 when sub does not occur
Find(text, sub) ==
    LET at == {i \in 1..Len(text) : StartsAt(text, i, sub)}
    IN IF at = {} THEN 0 ELSE CHOOSE i \in at : \A j \in at : i <= j

\* `sub in text`
In(sub, text) == Find(text, sub) # 0

\* text.split(sep) for a separator of several characters
RECURSIVE SplitStr(_, _)
SplitStr(text, sep) ==
    LET i == Find(text, sep)
    IN IF i = 0 THEN <<text>>
       ELSE <<SubSeq(text, 1, i - 1)>> \o SplitStr(SubSeq(text, i + Len(sep), Len(text)), sep)

\* re.sub(r"\(.*?\)", "", text): every "(" up to the next ")" is removed
RECURSIVE RemoveParens(_)
RemoveParens(text) ==
    LET o == Find(text, <<"(">>)
        rest == SubSeq(text, o + 1, Len(text))
        c == Find(rest, <<")">>)
    IN IF o = 0 \/ c = 0 THEN text
       ELSE SubSeq(text, 1, o - 1) \o RemoveParens(SubSeq(rest, c + 1, Len(rest)))

NotV(c) == c # "V"
\* lines 115-116
Clean(text) == Strip(SelectSeq(RemoveParens(text), NotV))

\* np.arange(start, stop, step) in exact arithmetic; step # 0
Arange(start, stop, step) ==
    LET span == IF step > 0 THEN stop - start ELSE start - stop
        size == IF step > 0 THEN step ELSE 0 - step
        n == IF span <= 0 THEN 0 ELSE (span + size - 1) \div size
    IN [k \in 1..n |-> start + (k - 1) * step]

\* np.flip
Flip(a) == [k \in 1..Len(a) |-> a[Len(a) + 1 - k]]

\* the entries of processed_values: a list of floats, or a bare float
ListEntry(vals) == [kind |-> "list", vals |-> vals]
FloatEntry(v) == [kind |-> "float", vals |-> <<v>>]

\* what one pass of the loop body did: the entries appended (none or one),
\* the lines printed, and range_vals after it
Pass(appended, printed, rv) == [appended |-> appended, printed |-> printed, range_vals |-> rv]

TextTo == << "t", "o" >>
TextSteps == << "s", "t", "e", "p", "s" >>
TextIn == << "i", "n" >>
TextStepsOf == << "s", "t", "e", "p", "s", " ", "o", "f" >>

\* lines 121-140: the range 'a to b in steps of s'
RangeBranch(cleaned, rv) ==
    LET byTo == SplitStr(cleaned, TextTo)
        start_str == Strip(byTo[1])
        end_and_step == byTo[2]
        end_str == Strip(SplitStr(end_and_step, TextIn)[1])
        byStepsOf == SplitStr(end_and_step, TextStepsOf)
        start == ParseFloat(start_str)
        end == ParseFloat(end_str)
        step == ParseFloat(IF Len(byStepsOf) >= 2 THEN Strip(byStepsOf[2]) ELSE <<>>)
        error == Pass(<<>>, <<"Error processing range">>, rv)
    IN IF Len(byStepsOf) < 2 THEN error                      \* IndexError
       ELSE IF ~(start.ok /\ end.ok /\ step.ok) THEN error     \* ValueError
       ELSE IF start.val # end.val /\ step.val = 0 THEN error  \* np.arange: zero step
       ELSE LET up == [bound |-> TRUE,
                       vals |-> Arange(start.val, end.val + step.val, step.val)]
                down == [bound |-> TRUE,
                         vals |-> Flip(Arange(end.val, start.val + step.val, step.val))]
                range_vals == IF start.val < end.val THEN up
                              ELSE IF end.val < start.val THEN down
                              ELSE rv
            IN IF range_vals.bound
               THEN Pass(<<ListEntry(range_vals.vals)>>, <<>>, range_vals)
               ELSE error                                    \* UnboundLocalError

\* lines 145-154: the values separated by '/'
DiscreteBranch(cleaned, rv) ==
    LET split_values == Split(cleaned, "/")
        kept == SelectSeq([k \in 1..Len(split_values) |-> Strip(split_values[k])],
                          LAMBDA v : v # <<>>)
        nums == [k \in 1..Len(kept) |-> ParseFloat(kept[k])]
    IN IF \A k \in 1..Len(nums) : nums[k].ok
       THEN Pass(<<ListEntry([k \in 1..Len(nums) |-> nums[k].val])>>, <<>>, rv)
       ELSE Pass(<<>>, <<"Error processing discrete values">>, rv)

\* lines 158-163: any other string
PlainBranch(text, rv) ==
    LET float_val == ParseFloat(text)
    IN IF float_val.ok THEN Pass(<<FloatEntry(float_val.val)>>, <<>>, rv)
       ELSE Pass(<<>>, <<"Unhandled value format">>, rv)

\* lines 108-163: the body of `for value in values`
ProcessValue(value, rv) ==
    IF (value.type = "num" /\ value.num = 0) \/ (value.type = "str" /\ value.text = <<"0">>)
    THEN Pass(<<ListEntry(<<0>>)>>, <<>>, rv)
    ELSE IF value.type = "str"
    THEN LET cleaned_value == Clean(value.text)
         IN IF In(TextTo, cleaned_value) /\ In(TextSteps, cleaned_value)
            THEN RangeBranch(cleaned_value, rv)
            ELSE IF In(<<"/">>, cleaned_value)
            THEN DiscreteBranch(cleaned_value, rv)
            ELSE PlainBranch(value.text, rv)
    ELSE Pass(<<>>, <<>>, rv)

\* ---- the values of one parameter, as extract_bias_data_from_excel reads
\* them: the cells of the row that are not empty, numbers or strings
MaxValues == 2

\* form, a, b, s describe the cell for the reader of the model; the code
\* sees type, text and num
Cell(n, form) == [type |-> "num", text |-> <<>>, num |-> n, form |-> form, a |-> 0, b |-> 0, s |-> 0]
Str(text, form) == [type |-> "str", text |-> text, num |-> 0, form |-> form, a |-> 0, b |-> 0, s |-> 0]
RangeStr(text, a, b, s) == [type |-> "str", text |-> text, num |-> 0, form |-> "range", a |-> a, b |-> b, s |-> s]

RECURSIVE DecText(_)
DecText(n) == IF n < 10 THEN <<DigitChars[n + 1]>> ELSE Append(DecText(n \div 10), DigitChars[(n % 10) + 1])

\* how a number of tenths is written in a cell
FormatTenths(t) == DecText(t \div 10) \o (IF t % 10 = 0 THEN <<>> ELSE <<".", DigitChars[(t % 10) + 1]>>)

RangeText(a, b, s) ==
    FormatTenths(a) \o << " ", "t", "o", " " >> \o FormatTenths(b)
        \o << " ", "i", "n", " ", "s", "t", "e", "p", "s", " ", "o", "f", " " >> \o FormatTenths(s)

RangeEnds == {0, 10, 15}
RangeSteps == {5, 10}

RangeValues ==
    {RangeStr(RangeText(a, b, s), a, b, s) : a \in RangeEnds, b \in RangeEnds, s \in RangeSteps}
        \cup {RangeStr(<< "(", "L", "V", ")", " ", "0", " ", "t", "o", " ", "1", "V", " ", "i", "n", " ", "s", "t", "e", "p", "s", " ", "o", "f", " ", "0", ".", "5", "V" >>, 0, 10, 5)}

OtherValues ==
    { Cell(0, "zero"),
      Str(<< "0" >>, "zero"),
      Cell(25, "number cell"),
      Str(<< "1", ".", "5" >>, "number"),
      Str(<< "1", ".", "5", "V" >>, "unrecognised"),
      Str(<< "a", "b", "c" >>, "unrecognised"),
      Str(<< "1", " ", "/", " ", "2" >>, "list"),
      Str(<< "0", ".", "5", "/", "1", "/" >>, "list"),
      Str(<< "1", " ", "/", " ", "x" >>, "bad list"),
      Str(<< "0", " ", "t", "o", " ", "x", " ", "i", "n", " ", "s", "t", "e", "p", "s", " ", "o", "f", " ", "1" >>, "bad range"),
      Str(<< "0", " ", "t", "o", " ", "1", " ", "s", "t", "e", "p", "s", " ", "1" >>, "bad range"),
      Str(<< "0", " ", "t", "o", " ", "1", " ", "i", "n", " ", "s", "t", "e", "p", "s", " ", "o", "f", " ", "0" >>, "bad range") }

InputValues == RangeValues \cup OtherValues

ValueLists == UNION {[1..n -> InputValues] : n \in 0..MaxValues}

NoArgs ==
    [fixed |-> "Vg", variable |-> "Vd", sweep_voltages |-> <<>>,
     fixed_voltage |-> 0, bulk_source_voltage |-> 0,
     source_substrate_voltage |-> 0, live_plot |-> FALSE,
     lakeshore |-> FALSE, start_global |-> FALSE]

\* line 104: a parameter's values, processed_values empty, and range_vals
\* not yet bound in the function
InitBias ==
    /\ bias \in {[NoBias EXCEPT !.values = vs] : vs \in ValueLists}
    /\ pc = "for value"
    /\ idx = 1
    /\ args = NoArgs
    /\ data = <<>>
    /\ loc = NoLocals
    /\ trace = <<>>
    /\ stdout = <<>>
    /\ nfail = 0
    /\ failed = {}
    /\ exc = NotRaised
    /\ call = NoCall
    /\ result = NoResult
    /\ script = NoOutput
    /\ bench = NoBench

\* lines 106-163: one value of the parameter
ProcessNextValue ==
    /\ pc = "for value"
    /\ idx <= Len(bias.values)
    /\ LET r == ProcessValue(bias.values[idx], bias.range_vals)
       IN /\ bias' = [bias EXCEPT !.processed_values = @ \o r.appended,
                                  !.range_vals = r.range_vals]
          /\ stdout' = stdout \o r.printed
    /\ idx' = idx + 1
    /\ UNCHANGED <<pc, args, data, loc, trace, nfail, failed, exc, call, result, script, bench>>

\* line 165: the values exhausted, processed_values is stored for the parameter
StoreProcessedValues ==
    /\ pc = "for value"
    /\ idx > Len(bias.values)
    /\ bias' = [bias EXCEPT !.processed_data = bias.processed_values]
    /\ pc' = "stored"
    /\ UNCHANGED <<idx, args, data, loc, trace, stdout, nfail, failed, exc, call, result, script, bench>>

NextBias ==
    \/ ProcessNextValue
    \/ StoreProcessedValues

SpecBias == InitBias /\ [][NextBias]_vars

\* --------------------------------------------------------------- C12
\* the forms process_bias_data is to convert, and those it is to skip
WellFormedValue(v) == v.form \in {"zero", "range", "list", "number"}
Malformed(v) == ~WellFormedValue(v)

\* a step of the loop over the values
ValueStep == pc = "for value" /\ idx' = idx + 1

\* C12 (as claimed): no value aborts the function; a value that cannot be
\* converted adds nothing to processed_values and has one warning printed,
\* and a well-formed value of the same parameter is converted.
C12_MalformedSkippedWithWarning ==
    [][ValueStep =>
         LET v == bias.values[idx]
         IN /\ Malformed(v) =>
                 /\ bias'.processed_values = bias.processed_values
                 /\ Len(stdout') = Len(stdout) + 1
            /\ WellFormedValue(v) =>
                 Len(bias'.processed_values) = Len(bias.processed_values) + 1]_vars

\* --------------------------------------------------------------- C13
\* the values among the first n that the function is to accept
AcceptedUpTo(n) == {k \in 1..n : WellFormedValue(bias.values[k])}

\* C13 (as claimed): every entry of a parameter's output is a list of
\* floats, never a bare number, and there is one entry per accepted input
\* value, whatever its form.
C13_EntriesAreLists ==
    /\ \A i \in DOMAIN bias.processed_values : bias.processed_values[i].kind = "list"
    /\ pc = "for value" =>
          Len(bias.processed_values) = Cardinality(AcceptedUpTo(idx - 1))
    /\ pc = "stored" =>
          /\ bias.processed_data = bias.processed_values
          /\ Len(bias.processed_data) = Cardinality(AcceptedUpTo(Len(bias.values)))

\* --------------------------------------------------------------- C17
\* the evenly spaced values from a towards b by s that are not beyond b
EvenlySpaced(a, b, s) ==
    LET n == ((IF a < b THEN b - a ELSE a - b) \div s) + 1
    IN [k \in 1..n |-> IF a < b THEN a + (k - 1) * s ELSE a - (k - 1) * s]

\* C17 (as claimed): a range 'a to b in steps of s' with s > 0 and a # b is
\* converted to the evenly spaced values that start at a and go by s
\* towards b, b included when b - a is a multiple of s, none beyond b.
C17_RangeEvenlySpaced ==
    [][ValueStep =>
         LET v == bias.values[idx]
         IN (v.form = "range" /\ v.s > 0 /\ v.a # v.b) =>
               bias'.processed_values
                  = Append(bias.processed_values, ListEntry(EvenlySpaced(v.a, v.b, v.s)))]_vars

\* --------------------------------------------------------------- C14
\* the three temperature fields of a row or of the locals
RowTemps(i) == <<Field(data[i], "TempA"), Field(data[i], "TempB"), Field(data[i], "Elapsed_time")>>
AllNone(t) == \A k \in 1..3 : t[k] = None
AllRecorded(t) == \A k \in 1..3 : t[k] # None

\* the steps whose temperature sample is over
SampledSteps == IF pc = "append" THEN Len(data) + 1 ELSE Len(data)
TempsOfStep(k) == IF k <= Len(data) THEN RowTemps(k) ELSE <<loc.tempA, loc.tempB, loc.elapsed_time>>
TempDiagnostics == Cardinality({k \in DOMAIN stdout : stdout[k] = "Temperature measurement error:"})

\* C14: in every row TempA, TempB and Elapsed_time are all recorded or all
\* None; they are all None without a controller or a start time; a failed
\* temperature read makes them all None and prints a diagnostic (as many
\* diagnostics as samples without values), and it does not end the sweep:
\* no exception leaves the sampling and a returned sweep has all its rows.
C14_TemperatureAllOrNone ==
    /\ \A k \in 1..SampledSteps : AllNone(TempsOfStep(k)) \/ AllRecorded(TempsOfStep(k))
    /\ ~(args.lakeshore /\ args.start_global) =>
          /\ \A k \in 1..SampledSteps : AllNone(TempsOfStep(k))
          /\ TempDiagnostics = 0
    /\ (args.lakeshore /\ args.start_global) =>
          Cardinality({k \in 1..SampledSteps : AllNone(TempsOfStep(k))}) = TempDiagnostics
    /\ pc = "raised" => exc.at # "temp"
    /\ pc = "done" => Len(data) = Len(args.sweep_voltages)

\* C14 witness: a returned sweep of two points, the temperature read of the
\* first failed and that of the second recorded
C14_Witness ==
    /\ ValidRoles
    /\ pc = "done"
    /\ Len(data) = 2
    /\ AllNone(RowTemps(1))
    /\ AllRecorded(RowTemps(2))
    /\ TempDiagnostics = 1

\* ---------------------------------- 03_safely_turn_off_instrum_outputs
\* what a command written to an instrument does to it
Apply(b, e) ==
    IF e.op # "write" THEN b
    ELSE IF e.cmd \in {":SOUR:VOLT", ":SOUR:VOLT:LEV"}
    THEN [b EXCEPT !.smu[e.instr].volt = e.val]
    ELSE IF e.cmd = ":OUTP OFF"
    THEN [b EXCEPT !.smu[e.instr].output = FALSE]
    ELSE IF e.cmd = "ROUT:OPEN:ALL"
    THEN [b EXCEPT !.mux[e.instr] = {}]
    ELSE IF e.cmd = "ROUT:CLOS"
    THEN [b EXCEPT !.mux[e.instr] = @ \cup {e.val}]
    ELSE b

RECURSIVE ApplyAll(_, _)
ApplyAll(b, events) == IF events = <<>> THEN b ELSE ApplyAll(Apply(b, Head(events)), Tail(events))

\* the instruments as the script may find them: each SMU sourcing 0 V or a
\* bias, its output on or off, a channel closed or not on each MUX
BenchStates ==
    [smu : [Instruments -> [volt : {0, 5}, output : BOOLEAN]],
     mux : [top : {{}, {101}}, bottom : {{}, {102}}]]

\* line 43: the SMUs in the order of the loop
ShutdownOrder == <<"drain", "gate", "bulk", "sub">>

InitShutdown ==
    /\ bench \in BenchStates
    /\ pc = "for instr"
    /\ idx = 1
    /\ args = NoArgs
    /\ data = <<>>
    /\ loc = NoLocals
    /\ trace = <<>>
    /\ stdout = <<>>
    /\ nfail = 0
    /\ failed = {}
    /\ exc = NotRaised
    /\ call = NoCall
    /\ result = NoResult
    /\ script = NoOutput
    /\ bias = NoBias

\* the commands w written at pc: the instruments obey those that were
\* written, and the script goes on at next unless a write raised
Written(w, next) ==
    /\ trace' = trace \o w.events
    /\ bench' = ApplyAll(bench, w.events)
    /\ IF w.exc # NoExc
       THEN pc' = "raised" /\ exc' = [cls |-> w.exc, at |-> pc]
       ELSE pc' = next /\ exc' = exc

\* the loop body with its two writes in the other order
ShutdownSMU_off_first ==
    /\ pc = "for instr"
    /\ idx <= Len(ShutdownOrder)
    /\ \E failAt \in 0..2 :
         Written(WriteAll(ShutdownOrder[idx], << <<":OUTP OFF", None>>, <<":SOUR:VOLT", 0>> >>, failAt),
                 "for instr")
    /\ idx' = IF pc' = "raised" THEN idx ELSE idx + 1
    /\ UNCHANGED <<args, data, loc, stdout, nfail, failed, call, result, script, bias>>

\* lines 43-45: one SMU, its source to 0 V, then its output off
ShutdownSMU ==
    /\ pc = "for instr"
    /\ idx <= Len(ShutdownOrder)
    /\ \E failAt \in 0..2 :
         Written(WriteAll(ShutdownOrder[idx], << <<":SOUR:VOLT", 0>>, <<":OUTP OFF", None>> >>, failAt),
                 "for instr")
    /\ idx' = IF pc' = "raised" THEN idx ELSE idx + 1
    /\ UNCHANGED <<args, data, loc, stdout, nfail, failed, call, result, script, bias>>

\* lines 51-56: all channels of both MUXes opened, the closing messages
OpenAllChannels ==
    /\ pc = "for instr"
    /\ idx > Len(ShutdownOrder)
    /\ \E f1 \in {0, 1}, f2 \in {0, 1} :
         LET top == WriteAll("top", << <<"ROUT:OPEN:ALL", None>> >>, f1)
             bottom == WriteAll("bottom", << <<"ROUT:OPEN:ALL", None>> >>, f2)
         IN Written(IF top.exc # NoExc THEN top
                    ELSE [events |-> top.events \o bottom.events, exc |-> bottom.exc],
                    "end")
    /\ stdout' = IF pc' = "end" THEN Append(stdout, "Shutdown/reset complete.") ELSE stdout
    /\ UNCHANGED <<args, idx, data, loc, nfail, failed, call, result, script, bias>>

NextShutdown ==
    \/ ShutdownSMU
    \/ OpenAllChannels

SpecShutdown == InitShutdown /\ [][NextShutdown]_vars

\* --------------------------------------------------------------- C15
\* the positions of the trace where cmd was written to instr
WritesOf(instr, cmd) ==
    {k \in DOMAIN trace : trace[k].op = "write" /\ trace[k].instr = instr /\ trace[k].cmd = cmd}

\* C15: each SMU has its source set to 0 V before its output is switched
\* off, all four SMUs are switched off before a channel of a MUX is opened,
\* and when the script reaches its end every SMU output is off at 0 V and
\* no channel of either MUX is closed.
C15_SafeShutdownOrder ==
    /\ \A i \in Instruments :
         \A k \in WritesOf(i, ":OUTP OFF") :
            /\ \E j \in WritesOf(i, ":SOUR:VOLT") : j < k /\ trace[j].val = 0
            /\ bench.smu[i].volt = 0
    /\ \A m \in {"top", "bottom"} :
         \A k \in WritesOf(m, "ROUT:OPEN:ALL") :
            \A i \in Instruments : \E j \in WritesOf(i, ":OUTP OFF") : j < k
    /\ pc = "end" =>
          /\ \A i \in Instruments : ~bench.smu[i].output /\ bench.smu[i].volt = 0
          /\ bench.mux.top = {} /\ bench.mux.bottom = {}

\* C15 witness: the script reached its end having written to every
\* instrument
C15_Witness ==
    /\ pc = "end"
    /\ Len(trace) = 10
    /\ \A i \in Instruments : WritesOf(i, ":OUTP OFF") # {}
    /\ WritesOf("top", "ROUT:OPEN:ALL") # {} /\ WritesOf("bottom", "ROUT:OPEN:ALL") # {}

\* ----------------------------- self_heating_paused_measurements_test
\* the arguments: Vds_set a range as the sweep lists are, the three fixed
\* voltages, and start_global given or None. lakeshore is the global the
\* script binds at line 648, never None. source_instr is the SMU "sub".
HeatingArgSets ==
    [Vds_set : SweepLists, Vgs : {3}, Vs : {5}, Vbs : {4}, start_global : BOOLEAN]

InitHeating ==
    /\ args \in HeatingArgSets
    /\ pc = "for Vds"
    /\ idx = 1
    /\ data = <<>>
    /\ loc = NoLocals
    /\ trace = <<>>
    /\ stdout = <<>>
    /\ nfail = 0
    /\ failed = {}
    /\ exc = NotRaised
    /\ call = NoCall
    /\ result = NoResult
    /\ script = NoOutput
    /\ bias = NoBias
    /\ bench = NoBench

\* lines 559-565: the next Vds, and the four voltages applied: source,
\* bulk, gate, drain
HeatApply ==
    /\ pc = "for Vds"
    /\ idx <= Len(args.Vds_set)
    /\ \E f1 \in {0, 1}, f2 \in {0, 1}, f3 \in {0, 1}, f4 \in {0, 1} :
         Proceed(Then(set_voltage(args.Vs, "sub", "SCPI", f1),
                 Then(set_voltage(args.Vbs, "bulk", "SCPI", f2),
                 Then(set_voltage(args.Vgs, "gate", "SCPI", f3),
                      set_voltage(args.Vds_set[idx], "drain", "SCPI", f4)))),
                 "measure")
    /\ UNCHANGED <<args, idx, data, loc, nfail, failed, call, result, script, bias, bench>>

\* lines 569-572: the four readings, of drain, gate, source and bulk
HeatMeasure ==
    /\ pc = "measure"
    /\ \E qd \in QueryOutcomes("drain"), qg \in QueryOutcomes("gate"),
          qs \in QueryOutcomes("sub"), qb \in QueryOutcomes("bulk") :
         LET d == measure_iv("drain", "SCPI", 0, qd)
             g == measure_iv("gate", "SCPI", 0, qg)
             sr == measure_iv("sub", "SCPI", 0, qs)
             b == measure_iv("bulk", "SCPI", 0, qb)
             bad == {i \in {"drain", "gate", "sub", "bulk"} :
                       ~WellFormed(CASE i = "drain" -> qd [] i = "gate" -> qg
                                     [] i = "sub" -> qs [] OTHER -> qb)}
         IN /\ nfail + Cardinality(bad) <= MaxFail
            /\ nfail' = nfail + Cardinality(bad)
            /\ failed' = failed \cup {<<idx, i>> : i \in bad}
            /\ Proceed(Then(d, Then(g, Then(sr, b))), "record")
            /\ loc' = [loc EXCEPT !.d_v = d.ret[1], !.d_i = d.ret[2],
                                  !.g_v = g.ret[1], !.g_i = g.ret[2],
                                  !.sub_v = sr.ret[1], !.sub_i = sr.ret[2],
                                  !.b_v = b.ret[1], !.b_i = b.ret[2]]
    /\ UNCHANGED <<args, idx, data, call, result, script, bias, bench>>

\* the tuple of lines 588-593
HeatRow(l) ==
    << args.Vds_set[idx], args.Vgs, args.Vbs, args.Vs,
       l.d_i, l.b_i, l.sub_i, l.g_i,
       l.d_v, l.b_v, l.sub_v, l.g_v,
       l.tempA, l.tempB, l.elapsed_time >>

\* lines 576-595: the temperatures, then the row appended
HeatRecord ==
    /\ pc = "record"
    /\ IF args.start_global
       THEN \E qa \in TempOutcomes(ChannelA), qb \in TempOutcomes(ChannelB) :
              LET a == read_temperature(ChannelA, qa)
                  b == read_temperature(ChannelB, qb)
                  ev == IF a.raised # NoExc THEN a.events ELSE a.events \o b.events
                  bad == a.raised # NoExc \/ b.raised # NoExc
                  l == IF bad
                       THEN [loc EXCEPT !.tempA = None, !.tempB = None, !.elapsed_time = None]
                       ELSE [loc EXCEPT !.tempA = a.ret, !.tempB = b.ret,
                                        !.elapsed_time = Elapsed(trace \o ev)]
              IN /\ a.raised # NoExc => qb = Timeout
                 /\ loc' = l
                 /\ data' = Append(data, HeatRow(l))
                 /\ trace' = trace \o ev \o <<Event("append", "data", "row", Len(data) + 1)>>
                 /\ stdout' = (IF bad THEN Append(stdout, "Temperature measurement error:")
                               ELSE stdout) \o <<"Measurement taken.">>
       ELSE LET l == [loc EXCEPT !.tempA = None, !.tempB = None, !.elapsed_time = None]
            IN /\ loc' = l
               /\ data' = Append(data, HeatRow(l))
               /\ trace' = Append(trace, Event("append", "data", "row", Len(data) + 1))
               /\ stdout' = Append(stdout, "Measurement taken.")
    /\ pc' = "cool"
    /\ UNCHANGED <<args, idx, nfail, failed, exc, call, result, script, bias, bench>>

\* the cooling with the drain alone set to 0 V
HeatCool_drain_only ==
    /\ pc = "cool"
    /\ \E f1 \in {0, 1} :
         Proceed(Then(set_voltage(0, "drain", "SCPI", f1),
                      Plain(<<Event("sleep", "time", "cooling_interval", None)>>)),
                 "for Vds")
    /\ idx' = IF pc' = "raised" THEN idx ELSE idx + 1
    /\ UNCHANGED <<args, data, loc, nfail, failed, call, result, script, bias, bench>>

\* lines 597-603: drain and bulk set to 0 V, then the cooling interval
HeatCool ==
    /\ pc = "cool"
    /\ \E f1 \in {0, 1}, f2 \in {0, 1} :
         Proceed(Then(set_voltage(0, "drain", "SCPI", f1),
                 Then(set_voltage(0, "bulk", "SCPI", f2),
                      Plain(<<Event("sleep", "time", "cooling_interval", None)>>))),
                 "for Vds")
    /\ idx' = IF pc' = "raised" THEN idx ELSE idx + 1
    /\ UNCHANGED <<args, data, loc, nfail, failed, call, result, script, bias, bench>>

\* line 605: Vds_set exhausted, data returned
HeatReturn ==
    /\ pc = "for Vds"
    /\ idx > Len(args.Vds_set)
    /\ pc' = "done"
    /\ UNCHANGED <<args, idx, data, loc, trace, stdout, nfail, failed, exc, call, result, script, bias, bench>>

NextHeating ==
    \/ HeatApply
    \/ HeatMeasure
    \/ HeatRecord
    \/ HeatCool
    \/ HeatReturn

SpecHeating == InitHeating /\ [][NextHeating]_vars

\* --------------------------------------------------------------- C16
\* where the cooling intervals start
CoolingStarts ==
    {k \in DOMAIN trace : trace[k].op = "sleep" /\ trace[k].cmd = "cooling_interval"}

\* the last voltage commanded on instr before position k, None when none
LastVoltageBefore(k, instr) ==
    LET ks == {j \in 1..(k - 1) : IsVoltageWrite(trace[j]) /\ trace[j].instr = instr}
    IN IF ks = {} THEN None ELSE trace[MaxOf(ks)].val

\* the cooling interval at k follows the row of its point
RowBeforeCooling(k) ==
    Cardinality({j \in 1..(k - 1) : trace[j].op = "append"})
       = Cardinality({j \in CoolingStarts : j <= k})

C18_AllSmusZeroAtEnd ==
    pc = "end" => \A i \in Instruments : LastVoltage(i) = 0

\* C18 witness: the loop body completed after a sweep of two points made
\* with a bulk and a substrate bias
C18_Witness ==
    /\ pc = "end"
    /\ args.fixed = "Vg" /\ args.variable = "Vd"
    /\ script.saved /\ Len(script.csv_file) = 2
    /\ SetTo("bulk", args.bulk_source_voltage) \in {trace[k] : k \in DOMAIN trace}
    /\ SetTo("sub", args.source_substrate_voltage) \in {trace[k] : k \in DOMAIN trace}
    /\ args.bulk_source_voltage # 0 /\ args.source_substrate_voltage # 0

\* ------------------------------------------------- MUX configuration
\* src/02_take_measurements.py, lines 736-757: the two multiplexers are
\* configured for one transistor from its entry of the MUX-instruction file

MaxDirectives == 3

\* the strings "DS", "GS" and one that holds neither
BiasTypes == {<<"D", "S">>, <<"G", "S">>, <<"B", "S">>}

\* one channel-routing directive of the file (parse_mux_channel_string
\* writes "DS" or "GS"; the script reads whatever the file holds)
Directives == [channel : {1, 2}, bias_type : BiasTypes, operation : {"Force"}]

\* the directives of mux_dict in the order the two loops visit them
DirectiveLists == UNION {[1..n -> Directives] : n \in 0..MaxDirectives}

\* the channels the transistor configured before left closed: its own on
\* each MUX, and possibly one the next transistor lists too
PreviousMux == [top : {{103}, {101, 103}}, bottom : {{104}, {102, 104}}]

InitMux ==
    /\ args \in [mux_dict : DirectiveLists]
    /\ bench \in [smu : {NoBench.smu}, mux : PreviousMux]
    /\ pc = "open all"
    /\ idx = 1
    /\ data = <<>>
    /\ loc = NoLocals
    /\ trace = <<>>
    /\ stdout = <<>>
    /\ nfail = 0
    /\ failed = {}
    /\ exc = NotRaised
    /\ call = NoCall
    /\ result = NoResult
    /\ script = NoOutput
    /\ bias = NoBias

\* the writes <<instr, cmd, val>> in order; write number failAt raises
WriteEach(writes, failAt) ==
    LET n == Len(writes)
        done == IF failAt \in 1..n THEN failAt - 1 ELSE n
    IN [events |-> [k \in 1..done |-> Event("write", writes[k][1], writes[k][2], writes[k][3])],
        exc |-> IF failAt \in 1..n THEN "VisaIOError" ELSE NoExc]

\* lines 736-737 without the bottom MUX
MuxOpenAll_top_only ==
    /\ pc = "open all"
    /\ \E failAt \in 0..3 :
         Written(WriteEach(<< <<"top", "ROUT:OPEN:ALL", None>>,
                              <<"top", ":FUNC \"VOLT:DC\"", None>>,
                              <<"bottom", ":FUNC \"VOLT:DC\"", None>> >>, failAt),
                 "for instruc")
    /\ UNCHANGED <<args, idx, data, loc, stdout, nfail, failed, call, result, script, bias>>

\* lines 736-740: all channels of both MUXes opened, both set to DC volts
MuxOpenAll ==
    /\ pc = "open all"
    /\ \E failAt \in 0..4 :
         Written(WriteEach(<< <<"top", "ROUT:OPEN:ALL", None>>,
                              <<"bottom", "ROUT:OPEN:ALL", None>>,
                              <<"top", ":FUNC \"VOLT:DC\"", None>>,
                              <<"bottom", ":FUNC \"VOLT:DC\"", None>> >>, failAt),
                 "for instruc")
    /\ UNCHANGED <<args, idx, data, loc, stdout, nfail, failed, call, result, script, bias>>

\* lines 744-757: one directive
MuxInstruc ==
    /\ pc = "for instruc"
    /\ idx <= Len(args.mux_dict)
    /\ LET instruc == args.mux_dict[idx]
           keithley_channel == 100 + instruc.channel
       IN IF In(<<"D", "S">>, instruc.bias_type)
          THEN /\ \E failAt \in {0, 1} :
                    Written(WriteEach(<< <<"top", "ROUT:CLOS", keithley_channel>> >>, failAt),
                            "for instruc")
               /\ stdout' = IF pc' = "raised" THEN stdout
                            ELSE Append(stdout, "Closed channel in top DS MUX.")
          ELSE IF In(<<"G", "S">>, instruc.bias_type)
          THEN /\ \E failAt \in {0, 1} :
                    Written(WriteEach(<< <<"bottom", "ROUT:CLOS", keithley_channel>> >>, failAt),
                            "for instruc")
               /\ stdout' = IF pc' = "raised" THEN stdout
                            ELSE Append(stdout, "Closed channel in bottom GS MUX.")
          ELSE /\ Written(WriteEach(<<>>, 0), "for instruc")
               /\ stdout' = Append(stdout, "Invalid bias specification (not DS or GS), skipping.")
    /\ idx' = IF pc' = "raised" THEN idx ELSE idx + 1
    /\ UNCHANGED <<args, data, loc, nfail, failed, call, result, script, bias>>

\* lines 742-759: no directive left, the sweeps of the transistor start
MuxConfigured ==
    /\ pc = "for instruc"
    /\ idx > Len(args.mux_dict)
    /\ pc' = "configured"
    /\ UNCHANGED <<args, idx, data, loc, trace, stdout, nfail, failed, exc, call, result, script, bias, bench>>

NextMux ==
    \/ MuxOpenAll
    \/ MuxInstruc
    \/ MuxConfigured

SpecMux == InitMux /\ [][NextMux]_vars

\* --------------------------------------------------------------- C19
\* the channels the directives of bias type t list
Listed(t) ==
    {100 + args.mux_dict[k].channel :
        k \in {j \in DOMAIN args.mux_dict : args.mux_dict[j].bias_type = t}}

\* the positions of the trace where cmd was written
WrittenAt(cmd) == {k \in DOMAIN trace : trace[k].op = "write" /\ trace[k].cmd = cmd}

\* C19: when the sweeps of a transistor start, the channels closed on the
\* top MUX are exactly 100 + channel of its DS directives and those closed
\* on the bottom MUX exactly 100 + channel of its GS directives; both MUXes
\* were opened before any channel was closed, a directive of another bias
\* type closed nothing, and no channel the previous transistor had closed
\* stays closed unless it is listed again.
C19_ClosedExactlyListed ==
    pc = "configured" =>
        /\ bench.mux.top = Listed(<<"D", "S">>)
        /\ bench.mux.bottom = Listed(<<"G", "S">>)
        /\ \A o \in WrittenAt("ROUT:OPEN:ALL"), c \in WrittenAt("ROUT:CLOS") : o < c
        /\ \E o \in WrittenAt("ROUT:OPEN:ALL") : trace[o].instr = "top"
        /\ \E o \in WrittenAt("ROUT:OPEN:ALL") : trace[o].instr = "bottom"
        /\ Cardinality(WrittenAt("ROUT:CLOS")) =
             Cardinality({k \in DOMAIN args.mux_dict :
                            args.mux_dict[k].bias_type \in {<<"D", "S">>, <<"G", "S">>}})

\* C19 witness: a transistor with a DS, a GS and another directive is
\* configured; only the first two closed a channel
C19_Witness ==
    /\ pc = "configured"
    /\ {args.mux_dict[k].bias_type : k \in DOMAIN args.mux_dict} = BiasTypes
    /\ Cardinality(WrittenAt("ROUT:CLOS")) = 2
    /\ 103 \notin bench.mux.top /\ 104 \notin bench.mux.bottom
    /\ bench.mux.top # {} /\ bench.mux.bottom # {}

\* ------------------------------------------------- perform_iv_sweep
\* src/test_004__get_1_iv_curve.py, lines 64-85 and 111-183, and
\* src/test_005__get_1_iv_curve_set_second_inst.py, lines 187-268: the
\* sweep of the single-instrument test scripts. Voltages are tenths of a
\* volt and the arithmetic is exact.

MaxStop == 3

\* what the instrument may answer to :READ?: voltage and current, one
\* value only, a current that is no number
IvResponses ==
    << <<"1", ",", "2">>, <<"1">>, <<"1", ",", "x">> >>

\* lines 64-85, after the query returned response: the second field as a
\* float, None when there is none or float() raises ValueError
read_current(response) ==
    LET values == Split(Strip(response), ",")
    IN IF Len(values) >= 2
       THEN LET current_read == ParseFloat(values[2])
            IN IF current_read.ok
               THEN [ret |-> current_read.val, printed |-> <<>>]
               ELSE [ret |-> None, printed |-> <<"Error parsing current value:">>]
       ELSE [ret |-> None, printed |-> <<"Unexpected response format:">>]

\* the sweeps: ascending and descending, V_stop hit or stepped over, no
\* step at all; V_rigol is None in test_004, which has no second supply
IvArgSets ==
    [V_start : {0, 2}, V_stop : 0..MaxStop, V_step : {-1, 1, 2}, V_rigol : {None, 5}]

InitIv ==
    /\ args \in IvArgSets
    /\ pc = "start"
    /\ loc = [V |-> args.V_start, direction |-> IF args.V_step > 0 THEN 1 ELSE -1]
    /\ idx = 1
    /\ data = <<>>
    /\ trace = <<>>
    /\ stdout = <<>>
    /\ nfail = 0
    /\ failed = {}
    /\ exc = NotRaised
    /\ call = NoCall
    /\ result = NoResult
    /\ script = NoOutput
    /\ bias = NoBias
    /\ bench = NoBench

\* the writes w made at pc, the lines printed after them when none raised
IvWritten(w, printed, next) ==
    /\ trace' = trace \o w.events
    /\ IF w.exc # NoExc
       THEN /\ pc' = "raised"
            /\ exc' = [cls |-> w.exc, at |-> pc]
            /\ stdout' = stdout
       ELSE /\ pc' = next
            /\ exc' = exc
            /\ stdout' = stdout \o printed

\* test_004 lines 126-141, test_005 lines 201-222: the figure, and in
\* test_005 the second supply set and switched on
IvStart ==
    /\ pc = "start"
    /\ \E failAt \in 0..3 :
         IvWritten(WriteEach(IF args.V_rigol = None THEN <<>>
                             ELSE << <<"rigol_dp832", "INST CH1", None>>,
                                     <<"rigol_dp832", "VOLT", args.V_rigol>>,
                                     <<"rigol_dp832", "OUTP ON", None>> >>, failAt),
                   <<"Starting IV sweep">>, "while")
    /\ UNCHANGED <<args, idx, data, loc, nfail, failed, call, result, script, bias, bench>>

\* the condition of the while loop
IvInRange ==
    \/ loc.V <= args.V_stop /\ loc.direction = 1
    \/ loc.V >= args.V_stop /\ loc.direction = -1

\* the iterations of the loop the model follows: more than any sweep with
\* a step towards V_stop makes
MaxIter == MaxStop + 2

\* test_004 lines 143-169, test_005 lines 224-254: one step of the sweep.
\* The query (r = 0: it times out) is made before the try block of
\* read_current, whose handler is `except ValueError`.
IvStep ==
    /\ pc = "while"
    /\ IvInRange
    /\ idx <= MaxIter
    /\ \E failAt \in 0..2, r \in 0..Len(IvResponses) :
         LET w == WriteEach(<< <<"keithley_6430", ":SOUR:VOLT:LEV", loc.V>>,
                               <<"keithley_6430", ":OUTP ON", None>> >>, failAt)
             q == Event("query", "keithley_6430", ":READ?", IF r = 0 THEN None ELSE r)
         IN IF w.exc # NoExc
            THEN /\ IvWritten(w, <<>>, "while")
                 /\ UNCHANGED <<data, loc, idx>>
            ELSE IF r = 0
            THEN /\ trace' = trace \o w.events \o <<q>>
                 /\ pc' = "raised"
                 /\ exc' = [cls |-> "VisaIOError", at |-> pc]
                 /\ UNCHANGED <<stdout, data, loc, idx>>
            ELSE LET current == read_current(IvResponses[r])
                 IN /\ trace' = trace \o w.events \o <<q>>
                    /\ pc' = "while"
                    /\ exc' = exc
                    /\ stdout' = stdout \o current.printed
                    /\ data' = IF current.ret # None
                               THEN Append(data, <<loc.V, current.ret>>) ELSE data
                    /\ loc' = [loc EXCEPT !.V = @ + args.V_step]
                    /\ idx' = idx + 1
    /\ UNCHANGED <<args, nfail, failed, call, result, script, bias, bench>>

\* test_004 lines 171-183, test_005 lines 256-268: back to 0 V, output
\* off, in test_005 the second supply off, sweep_data returned
IvReturn ==
    /\ pc = "while"
    /\ ~IvInRange
    /\ \E failAt \in 0..3 :
         IvWritten(WriteEach(<< <<"keithley_6430", ":SOUR:VOLT:LEV", 0>>,
                                <<"keithley_6430", ":OUTP OFF", None>> >>
                             \o (IF args.V_rigol = None THEN <<>>
                                 ELSE << <<"rigol_dp832", "OUTP OFF", None>> >>), failAt),
                   <<"IV sweep completed.">>, "returned")
    /\ UNCHANGED <<args, idx, data, loc, nfail, failed, call, result, script, bias, bench>>

NextIv ==
    \/ IvStart
    \/ IvStep
    \/ IvReturn

SpecIv == InitIv /\ [][NextIv]_vars

\* --------------------------------------------------------------- C20
\* the voltages V_start, V_start + V_step, ... up to and including V_stop
IvExpected ==
    LET span == IF args.V_step > 0 THEN args.V_stop - args.V_start
                ELSE args.V_start - args.V_stop
        size == IF args.V_step > 0 THEN args.V_step ELSE 0 - args.V_step
        n == IF span < 0 THEN 0 ELSE (span \div size) + 1
    IN [k \in 1..n |-> args.V_start + (k - 1) * args.V_step]

\* the positions of the trace where the loop applied a voltage: a level
\* written and the output switched on
IvApplied ==
    {k \in 1..(Len(trace) - 1) :
        /\ trace[k].instr = "keithley_6430" /\ trace[k].cmd = ":SOUR:VOLT:LEV"
        /\ trace[k + 1].cmd = ":OUTP ON" /\ trace[k + 1].instr = "keithley_6430"}

\* the positions of the trace where the current was read
IvReads == {k \in DOMAIN trace : trace[k].op = "query"}

RECURSIVE InOrder(_)
InOrder(S) ==
    IF S = {} THEN <<>>
    ELSE LET m == CHOOSE x \in S : \A y \in S : x <= y
         IN <<m>> \o InOrder(S \ {m})

\* the voltage applied before the reading at position q
IvVoltageOf(q) == trace[q - 2].val

\* the reading at position q gave a current
IvSucceeded(q) == trace[q].val # None /\ read_current(IvResponses[trace[q].val]).ret # None

\* the tuples of the readings that succeeded, in step order
IvTuples ==
    LET good == InOrder({q \in IvReads : IvSucceeded(q)})
    IN [k \in DOMAIN good |->
          <<IvVoltageOf(good[k]), read_current(IvResponses[trace[good[k]].val]).ret>>]

\* the voltages are applied in the order of the claim and each is read
\* once; when the sweep returns all of them were applied and sweep_data
\* holds the tuples of the readings that succeeded
C20_TuplesOfSuccessfulSteps ==
    LET applied == InOrder(IvApplied)
    IN /\ Len(applied) <= Len(IvExpected)
       /\ \A k \in DOMAIN applied : trace[applied[k]].val = IvExpected[k]
       /\ \A q \in IvReads : q - 2 \in IvApplied
       /\ Cardinality(IvReads) <= Cardinality(IvApplied)
       /\ pc = "returned" =>
            /\ Len(applied) = Len(IvExpected)
            /\ Cardinality(IvReads) = Len(applied)
            /\ data = IvTuples

\* a step in which the current was read and the reading failed: the query
\* timed out, or its response gave no current
IvReadingFails ==
    /\ Len(trace') > Len(trace)
    /\ LET q == trace'[Len(trace')]
       IN /\ q.op = "query"
          /\ \/ q.val = None
             \/ read_current(IvResponses[q.val]).ret = None

\* C20: perform_iv_sweep applies V_start, V_start + V_step, ... in that
\* order for every value not beyond V_stop, V_stop included, reads the
\* current once per applied voltage and returns the (voltage, current)
\* tuples of exactly the steps whose reading succeeded, in step order; a
\* step with a failed reading adds no tuple and does not stop the sweep.
C20_FailedReadingSkipped ==
    /\ []C20_TuplesOfSuccessfulSteps
    /\ [][IvReadingFails => (data' = data /\ pc' = "while")]_vars

\* --------------------------------------------------------------- C21
\* every choice of the step: towards V_stop, away from it, and 0
IvAnyArgSets ==
    [V_start : {0, 2}, V_stop : 0..MaxStop, V_step : {-1, 0, 1, 2}, V_rigol : {None, 5}]

InitIvAny ==
    /\ args \in IvAnyArgSets
    /\ pc = "start"
    /\ loc = [V |-> args.V_start, direction |-> IF args.V_step > 0 THEN 1 ELSE -1]
    /\ idx = 1
    /\ data = <<>>
    /\ trace = <<>>
    /\ stdout = <<>>
    /\ nfail = 0
    /\ failed = {}
    /\ exc = NotRaised
    /\ call = NoCall
    /\ result = NoResult
    /\ script = NoOutput
    /\ bias = NoBias
    /\ bench = NoBench

\* the script is one thread that runs until the function is left
SpecIvAny == InitIvAny /\ [][NextIv]_vars /\ WF_vars(NextIv)

\* the last level written to the source and the last output command
IvLastOf(cmds) ==
    LET at == {k \in DOMAIN trace : trace[k].instr = "keithley_6430" /\ trace[k].cmd \in cmds}
    IN IF at = {} THEN None ELSE CHOOSE k \in at : \A j \in at : j <= k

\* the function returned with the source at 0 V and the output off
IvResetOnReturn ==
    pc = "returned" =>
        /\ IvLastOf({":SOUR:VOLT:LEV"}) # None
        /\ trace[IvLastOf({":SOUR:VOLT:LEV"})].val = 0
        /\ IvLastOf({":OUTP ON", ":OUTP OFF"}) # None
        /\ trace[IvLastOf({":OUTP ON", ":OUTP OFF"})].cmd = ":OUTP OFF"

MaxQuarters == 4

Quarters(n) == 25 * n

\* round(x, 1): to the nearest tenth, a tie to the even tenth
Round1(x) ==
    LET q == x \div 10
        r == x % 10
    IN IF r < 5 THEN 10 * q
       ELSE IF r > 5 THEN 10 * (q + 1)
       ELSE IF q % 2 = 0 THEN 10 * q ELSE 10 * (q + 1)

DrangeArgSets ==
    [start : {Quarters(n) : n \in -1..3},
     stop : {Quarters(n) : n \in (0 - MaxQuarters)..MaxQuarters},
     step : {Quarters(n) : n \in {-4, -2, -1, 0, 1, 2, 4}}]

\* lines 19-20: result = [], intermediate_voltage = float(start)
InitDrange ==
    /\ args \in DrangeArgSets
    /\ pc = "drange"
    /\ loc = [intermediate_voltage |-> args.start]
    /\ data = <<>>
    /\ idx = 1
    /\ trace = <<>>
    /\ stdout = <<>>
    /\ nfail = 0
    /\ failed = {}
    /\ exc = NotRaised
    /\ call = NoCall
    /\ result = NoResult
    /\ script = NoOutput
    /\ bias = NoBias
    /\ bench = NoBench

\* the condition of the loop of the branch taken
DrangeInLoop ==
    \/ args.step > 0 /\ loc.intermediate_voltage < args.stop
    \/ args.step < 0 /\ loc.intermediate_voltage > args.stop

\* lines 22-28: one iteration of either loop
DrangeAppend ==
    /\ pc = "drange"
    /\ DrangeInLoop
    /\ data' = Append(data, Round1(loc.intermediate_voltage))
    /\ loc' = [loc EXCEPT !.intermediate_voltage = @ + args.step]
    /\ idx' = idx + 1
    /\ UNCHANGED <<args, pc, trace, stdout, nfail, failed, exc, call, result, script, bias, bench>>

\* lines 29-32: `return []` for a step of 0, `return result` after a loop
DrangeReturn ==
    /\ pc = "drange"
    /\ ~DrangeInLoop
    /\ pc' = "returned"
    /\ data' = IF args.step = 0 THEN <<>> ELSE data
    /\ UNCHANGED <<args, idx, loc, trace, stdout, nfail, failed, exc, call, result, script, bias, bench>>

NextDrange ==
    \/ DrangeAppend
    \/ DrangeReturn

SpecDrange == InitDrange /\ [][NextDrange]_vars

\* --------------------------------------------------------------- C22
\* the number of values start, start + step, ... strictly before stop
DrangeCount ==
    IF args.step = 0 THEN 0
    ELSE LET span == IF args.step > 0 THEN args.stop - args.start ELSE args.start - args.stop
             size == IF args.step > 0 THEN args.step ELSE 0 - args.step
         IN IF span <= 0 THEN 0 ELSE ((span - 1) \div size) + 1

\* C22: drange returns the empty list when step is 0 or start is at or
\* beyond stop in the direction of step, and otherwise the values start,
\* start + step, start + 2*step, ... strictly before stop, stop excluded.
C22_DrangeValues ==
    pc = "returned" =>
        data = [k \in 1..DrangeCount |-> args.start + (k - 1) * args.step]

\* the same with each value rounded to one decimal
C22_DrangeRounded ==
    pc = "returned" =>
        data = [k \in 1..DrangeCount |-> Round1(args.start + (k - 1) * args.step)]

\* --------------------------------------------------------------- C23
\* the row records, for each instrument, the voltage last commanded on it
RowMatchesCommanded(row) ==
    /\ Field(row, "Vd_src") = LastVoltage("drain")
    /\ Field(row, "Vg_src") = LastVoltage("gate")
    /\ Field(row, "Vb_src") = LastVoltage("bulk")
    /\ Field(row, "Vsub_src") = LastVoltage("sub")

\* C23: with valid roles, the source voltages recorded in the row of a
\* measurement (Vd_src, Vg_src, Vb_src, Vsub_src) are the voltages most
\* recently commanded on the drain, gate, bulk and substrate instruments
\* when the row is appended.
C23_RowRecordsCommanded ==
    [][(ValidRoles /\ Len(data') = Len(data) + 1)
          => RowMatchesCommanded(data'[Len(data')])]_vars

\* C23 witness: two rows of a sweep with valid roles, the second recorded
\* after the swept voltage changed, both with the commanded voltages
C23_Witness ==
    /\ ValidRoles
    /\ Len(data) = 2
    /\ pc = "loop"
    /\ Field(data[1], "Vd_src") # Field(data[2], "Vd_src")
    /\ Field(data[2], "Vg_src") = args.fixed_voltage
    /\ RowMatchesCommanded(data[2])

\* --------------------------------------------------------------- C24
\* C24: in every row Vb_meas is never None: a failed bulk measurement
\* records bulk_source_voltage as Vb_meas, a failed drain, substrate or
\* gate measurement leaves None in Vd_meas, Vsub_meas or Vg_meas, and a
\* failed measurement leaves None in the current of its instrument.
C24_BulkVoltageDefaulted ==
    /\ \A i \in DOMAIN data : Field(data[i], "Vb_meas") # None
    /\ \A f \in failed :
         f[1] <= Len(data) =>
            /\ Field(data[f[1]], CurrentCol(f[2])) = None
            /\ IF f[2] = "bulk"
               THEN Field(data[f[1]], "Vb_meas") = args.bulk_source_voltage
               ELSE Field(data[f[1]], VoltageCol(f[2])) = None

\* C24 witness: a row whose bulk and gate measurements both failed
C24_Witness ==
    /\ Len(data) = 1
    /\ failed = {<<1, "bulk">>, <<1, "gate">>}
    /\ Field(data[1], "Vb_meas") = args.bulk_source_voltage
    /\ Field(data[1], "Ib") = None
    /\ Field(data[1], "Vg_meas") = None
    /\ Field(data[1], "Vd_meas") # None

\* --------------------------------------------------------------- C26
\* an operation called with the tag drives the instrument: set_voltage
\* and configure_instr write their commands, measure_iv makes its query
SetVoltageDrives(tag) ==
    set_voltage(0, "drain", tag, 0).events # <<>>
ConfigureDrives(tag) ==
    configure_instr(0, "drain", DefaultCurrentCompliance, DefaultVoltageCompliance,
                    tag, 2, DefaultCurrentRange, TRUE, FALSE, 0).events # <<>>
MeasureDrives(tag) ==
    \E k \in DOMAIN measure_iv("drain", tag, 0, GoodResponse("drain")).events :
        measure_iv("drain", tag, 0, GoodResponse("drain")).events[k].op = "query"

\* C26: the three adapter operations agree on the valid dialect tags: a
\* tag with which measure_iv measured is one with which set_voltage and
\* configure_instr write their commands, and a tag with which set_voltage
\* or configure_instr wrote is one with which measure_iv measures.
C26_TagsAgree ==
    /\ (call.op = "measure_iv" /\ pc # "idle"
        /\ \E k \in DOMAIN result.events : result.events[k].op = "query")
          => SetVoltageDrives(call.flavor) /\ ConfigureDrives(call.flavor)
    /\ (call.op \in {"set_voltage", "configure_instr"} /\ pc # "idle"
        /\ result.events # <<>>)
          => MeasureDrives(call.flavor)

\* --------------------------------------------------------------- C25
\* C25: called with a dialect tag that is neither 'SCPI' nor 'non-SCPI',
\* configure_instr and set_voltage write nothing and return normally after
\* printing an error, and measure_iv makes no query and returns
\* (None, None).
C25_UnknownTagDrivesNothing ==
    (pc # "idle" /\ call.flavor \notin {"SCPI", "non-SCPI"})
        => /\ result.events = <<>>
           /\ pc = "returned"
           /\ result.printed
           /\ call.op = "measure_iv" => result.ret = <<None, None>>

\* the same for the tags no operation takes for a dialect, whatever the case
C25_ForeignTagDrivesNothing ==
    (pc # "idle" /\ ~ScpiTag(call.flavor) /\ ~LegacyTag(call.flavor))
        => /\ result.events = <<>>
           /\ pc = "returned"
           /\ result.printed
           /\ call.op = "measure_iv" => result.ret = <<None, None>>

\* called with 'SCPI' or 'non-SCPI' the three operations all drive
C26_ExactTagsAgree ==
    \A tag \in {"SCPI", "non-SCPI"} :
        SetVoltageDrives(tag) /\ ConfigureDrives(tag) /\ MeasureDrives(tag)

\* --------------------------------------------------------------- C27
\* the positions of the commands a call wrote
CallWrote(cmd) == {k \in DOMAIN result.events : result.events[k].cmd = cmd}

\* C27: configure_instr in the SCPI dialect never enables the output
\* before the limits are in place: for every wire_mode, disable_front_panel
\* and curr_range_hard_set, the source voltage, the voltage compliance and
\* the current compliance are written before ':OUTP ON', and ':OUTP ON' is
\* the last command written.
C27_OutputOnLast ==
    (call.op = "configure_instr" /\ call.flavor = "SCPI" /\ pc # "idle")
        => /\ \A k \in CallWrote(":OUTP ON") :
                /\ k = Len(result.events)
                /\ \E j \in CallWrote(":SOUR:VOLT") :
                      j < k /\ result.events[j].val = call.sourcing_voltage
                /\ \E j \in CallWrote(":SENS:VOLT:PROT") :
                      j < k /\ result.events[j].val = DefaultVoltageCompliance
                /\ \E j \in CallWrote(":SENS:CURR:PROT") :
                      j < k /\ result.events[j].val = DefaultCurrentCompliance
           /\ pc = "returned" => CallWrote(":OUTP ON") # {}

\* C27 witness: a 4-wire configuration with the current range set by hand
\* returned, its last command ':OUTP ON'
C27_Witness ==
    /\ call.op = "configure_instr"
    /\ call.flavor = "SCPI"
    /\ call.wire_mode = 4
    /\ call.curr_range_hard_set
    /\ ~call.disable_front_panel
    /\ pc = "returned"
    /\ result.events # <<>>
    /\ result.events[Len(result.events)].cmd = ":OUTP ON"
    /\ CallWrote(":SENS:CURR:RANG") # {}

\* --------------------------------- test_006_02_take_measurements.py
\* the three-instrument sweep of the test script, lines 19-52, 55-90 and
\* 92-196: ds_instr is "drain", gs_instr "gate", bs_instr (the body SMU,
\* legacy dialect) "bulk"

\* lines 22-36: the commands of the SCPI branch of its configure_instr
T6ScpiConfigCommands(sourcing_voltage, current_compliance, voltage_compliance, wire_mode) ==
    <<<<"*RST", None>>>>
    \o (IF wire_mode = 2 THEN <<<<":SYST:RSEN OFF", None>>>>
        ELSE IF wire_mode = 4 THEN <<<<":SYST:RSEN ON", None>>>>
        ELSE <<>>)
    \o << <<":SOUR:FUNC VOLT", None>>,
          <<":SOUR:VOLT:MODE FIXED", None>>,
          <<":SENS:VOLT:PROT", voltage_compliance>>,
          <<":SOUR:VOLT", sourcing_voltage>>,
          <<":SENS:FUNC CURR", None>>,
          <<":SENS:CURR:PROT", current_compliance>>,
          <<":SENS:AVER:COUN 4", None>>,
          <<":SENS:AVER:TCON REP", None>>,
          <<":SENS:AVER:STAT ON", None>>,
          <<":OUTP ON", None>> >>

\* lines 38-44: the commands of its non-SCPI branch
T6LegacyConfigCommands(sourcing_voltage, current_compliance) ==
    << <<"F0,0X", None>>,
       <<"B,0,0X", sourcing_voltage>>,
       <<"L,0X", current_compliance>>,
       <<"P2X", None>>,
       <<"R1X", None>>,
       <<"H0X", None>>,
       <<"N1X", None>> >>

\* lines 55-90: measure_current; every exception is caught and gives None
T6MeasureCurrent(instr, flavor, failAt, qo) ==
    IF flavor = "SCPI"
    THEN [events |-> <<Event("query", instr, ":READ?", None)>>,
          ret |-> IF ~qo.timeout /\ Len(qo.data) >= 2 /\ FloatOk(qo.data[2])
                  THEN qo.data[2].val ELSE None]
    ELSE LET w == WriteAll(instr, << <<"O1X;G4,2,0X;H0X;", None>> >>, failAt)
         IN IF w.exc # NoExc
            THEN [events |-> w.events, ret |-> None]
            ELSE [events |-> w.events \o <<Event("query", instr, "X", None)>>,
                  ret |-> IF ~qo.timeout /\ Len(qo.data) = 1 /\ FloatOk(qo.data[1])
                          THEN qo.data[1].val ELSE None]

\* what a query gives in the test: the reading or a timeout
T6Outcomes(instr) ==
    IF instr = "bulk" THEN {Response(<<Num(ReadI(instr))>>), Timeout}
    ELSE {GoodResponse(instr), Timeout}

\* curr_compliance of the sweep (0.01 A, in hundredths) and the default
\* voltage_compliance of the test's configure_instr (26 V)
T6CurrCompliance == 1
T6VoltageCompliance == 26

T6ArgSets ==
    [fixed : Roles, variable : Roles, sweep_voltages : SweepLists,
     fixed_voltage : FixedVals, body_voltage : BulkVals, live_plot : BOOLEAN]

\* the locals of the role block before it ran
T6Unbound == [fixed_v_instr |-> "unbound", sweep_v_instr |-> "unbound",
              fixed_v_instr_wire_mode |-> None, sweep_v_instr_wire_mode |-> None]

InitTest6 ==
    /\ args \in T6ArgSets
    /\ pc = "roles"
    /\ loc = T6Unbound
    /\ idx = 1
    /\ data = <<>>
    /\ trace = <<>>
    /\ stdout = <<>>
    /\ nfail = 0
    /\ failed = {}
    /\ exc = NotRaised
    /\ call = NoCall
    /\ result = NoResult
    /\ script = NoOutput
    /\ bias = NoBias
    /\ bench = NoBench

\* lines 94-141: the figure, and the instruments of the roles; a pair of
\* roles that is neither (Vd, Vg) nor (Vg, Vd) raises ValueError inside
\* the try block, which prints it and binds neither instrument
T6Roles ==
    /\ pc = "roles"
    /\ trace' = IF args.live_plot
                THEN Append(trace, Event("plot_open", "figure", "show", None))
                ELSE trace
    /\ IF args.fixed = "Vd" /\ args.variable = "Vg"
       THEN /\ loc' = [fixed_v_instr |-> "drain", sweep_v_instr |-> "gate",
                       fixed_v_instr_wire_mode |-> 4, sweep_v_instr_wire_mode |-> 2]
            /\ stdout' = stdout
       ELSE IF args.fixed = "Vg" /\ args.variable = "Vd"
       THEN /\ loc' = [fixed_v_instr |-> "gate", sweep_v_instr |-> "drain",
                       fixed_v_instr_wire_mode |-> 2, sweep_v_instr_wire_mode |-> 4]
            /\ stdout' = stdout
       ELSE /\ loc' = loc
            /\ stdout' = Append(stdout, "Invalid configuration")
    /\ pc' = "configure body"
    /\ UNCHANGED <<args, idx, data, nfail, failed, exc, call, result, script, bias, bench>>

\* the writes w of a step of the function: it goes on at next unless one raised
T6Written(w, next) ==
    /\ trace' = trace \o w.events
    /\ IF w.exc # NoExc
       THEN pc' = "raised" /\ exc' = [cls |-> w.exc, at |-> pc]
       ELSE pc' = next /\ exc' = exc

\* lines 150-151: the body SMU configured in the legacy dialect
T6ConfigureBody ==
    /\ pc = "configure body"
    /\ \E failAt \in 0..Len(T6LegacyConfigCommands(0, 0)) :
         T6Written(WriteAll("bulk",
                            T6LegacyConfigCommands(args.body_voltage, T6CurrCompliance),
                            failAt),
                   "configure fixed")
    /\ UNCHANGED <<args, idx, data, loc, stdout, nfail, failed, call, result, script, bias, bench>>

\* lines 152-153: the fixed instrument configured; reading fixed_v_instr
\* raises UnboundLocalError when the role block bound nothing
T6ConfigureFixed ==
    /\ pc = "configure fixed"
    /\ IF loc.fixed_v_instr = "unbound"
       THEN /\ pc' = "raised"
            /\ exc' = [cls |-> "UnboundLocalError", at |-> pc]
            /\ trace' = trace
       ELSE \E failAt \in 0..Len(T6ScpiConfigCommands(0, 0, 0, 2)) :
              T6Written(WriteAll(loc.fixed_v_instr,
                                 T6ScpiConfigCommands(args.fixed_voltage,
                                                      T6CurrCompliance,
                                                      T6VoltageCompliance,
                                                      loc.fixed_v_instr_wire_mode),
                                 failAt),
                        "configure sweep")
    /\ UNCHANGED <<args, idx, data, loc, stdout, nfail, failed, call, result, script, bias, bench>>

\* lines 154-155: the swept instrument configured at 0 V
T6ConfigureSweep ==
    /\ pc = "configure sweep"
    /\ \E failAt \in 0..Len(T6ScpiConfigCommands(0, 0, 0, 2)) :
         T6Written(WriteAll(loc.sweep_v_instr,
                            T6ScpiConfigCommands(0, T6CurrCompliance,
                                                 T6VoltageCompliance,
                                                 loc.sweep_v_instr_wire_mode),
                            failAt),
                   "for v_value")
    /\ UNCHANGED <<args, idx, data, loc, stdout, nfail, failed, call, result, script, bias, bench>>

\* lines 157-184: one step: the swept voltage written, the three currents
\* measured, the row appended, the figure redrawn
T6Step ==
    /\ pc = "for v_value"
    /\ idx <= Len(args.sweep_voltages)
    /\ \E failAt \in {0, 1}, bf \in {0, 1},
          dq \in T6Outcomes("drain"), bq \in T6Outcomes("bulk"), gq \in T6Outcomes("gate") :
         LET v_value == args.sweep_voltages[idx]
             w == WriteAll(loc.sweep_v_instr, << <<":SOUR:VOLT:LEV", v_value>> >>, failAt)
             d == T6MeasureCurrent("drain", "SCPI", 0, dq)
             b == T6MeasureCurrent("bulk", "non-SCPI", bf, bq)
             g == T6MeasureCurrent("gate", "SCPI", 0, gq)
         IN IF w.exc # NoExc
            THEN /\ T6Written(w, "for v_value")
                 /\ UNCHANGED <<data, idx>>
            ELSE /\ trace' = trace \o w.events \o d.events \o b.events \o g.events
                              \o <<Event("append", "data", "row", Len(data) + 1)>>
                              \o (IF args.live_plot
                                  THEN <<Event("plot", "figure", "draw", idx)>>
                                  ELSE <<>>)
                 /\ data' = Append(data, <<args.fixed_voltage, v_value, args.body_voltage,
                                           d.ret, b.ret, g.ret>>)
                 /\ idx' = idx + 1
                 /\ pc' = "for v_value"
                 /\ exc' = exc
    /\ UNCHANGED <<args, loc, stdout, nfail, failed, call, result, script, bias, bench>>

\* lines 186-196: the figure closed, the two SMUs switched off, the body
\* SMU sent to standby, data returned
T6TurnOff ==
    /\ pc = "for v_value"
    /\ idx > Len(args.sweep_voltages)
    /\ \E failAt \in 0..3 :
         LET w == WriteEach(<< <<loc.sweep_v_instr, ":OUTP OFF", None>>,
                               <<loc.fixed_v_instr, ":OUTP OFF", None>>,
                               <<"bulk", "N0X", None>> >>, failAt)
         IN T6Written([events |-> (IF args.live_plot
                                   THEN <<Event("plot_close", "figure", "close", None)>>
                                   ELSE <<>>) \o w.events,
                       exc |-> w.exc],
                      "returned")
    /\ UNCHANGED <<args, idx, data, loc, stdout, nfail, failed, call, result, script, bias, bench>>

NextTest6 ==
    \/ T6Roles
    \/ T6ConfigureBody
    \/ T6ConfigureFixed
    \/ T6ConfigureSweep
    \/ T6Step
    \/ T6TurnOff

SpecTest6 == InitTest6 /\ [][NextTest6]_vars

\* --------------------------------------------------------------- C28
\* the output of an instrument is on: the last command written to it that
\* switches its output switched it on
T6OutputOn(instr) ==
    LET ks == {k \in DOMAIN trace :
                  /\ trace[k].op = "write" /\ trace[k].instr = instr
                  /\ trace[k].cmd \in {":OUTP ON", ":OUTP OFF", "N1X", "N0X"}}
    IN ks # {} /\ trace[MaxOf(ks)].cmd \in {":OUTP ON", "N1X"}

\* the function is left, by its return or by an exception
T6Left == pc \in {"returned", "raised"}

\* C28: when the three-instrument sweep of the test script is left, on
\* every path, a fixed/variable pair that is neither (Vd, Vg) nor (Vg, Vd)
\* included, every instrument whose output it switched on is switched off
\* (the SMUs with ':OUTP OFF', the body SMU to standby).
C28_OutputsOffWhenLeft ==
    T6Left => \A instr \in {"drain", "gate", "bulk"} : ~T6OutputOn(instr)

\* the same for the calls that return
C28_OutputsOffOnReturn ==
    pc = "returned" => \A instr \in {"drain", "gate", "bulk"} : ~T6OutputOn(instr)

\* ------------------------------------------ the sweep with and without
\* the live plot: the same call made twice, first with live_plot True and
\* then with live_plot False, the instruments answering the second call
\* as they answered the first

\* the first call before it is over
NoFirstCall ==
    [recorded |-> FALSE, pc |-> "start", idx |-> 1, data |-> <<>>, trace |-> <<>>,
     failed |-> {}, exc |-> NotRaised]

\* the figure is drawn alike for every pair of roles: the drain is the
\* fixed role here and every role the variable one
InitPlot ==
    /\ args \in {a \in ArgSets : a.live_plot /\ a.fixed = "Vd"}
    /\ pc = "start"
    /\ idx = 1
    /\ data = <<>>
    /\ loc = NoLocals
    /\ trace = <<>>
    /\ stdout = <<>>
    /\ nfail = 0
    /\ failed = {}
    /\ exc = NotRaised
    /\ call = NoCall
    /\ result = NoResult
    /\ script = NoFirstCall
    /\ bias = NoBias
    /\ bench = NoBench

\* what is no event of the figure
IsAcquisition(e) == e.op \notin {"plot_open", "plot", "plot_close"}
Acquisition(tr) == SelectSeq(tr, IsAcquisition)

\* the operations on instruments of a trace, and those on the controller
IsInstrumentOp(e) == e.op \in {"write", "query"}
InstrumentOps(tr) == Len(SelectSeq(tr, IsInstrumentOp))
IsLakeshoreOp(e) == e.op = "query" /\ e.instr = "lakeshore"
LakeshoreOps(tr) == Len(SelectSeq(tr, IsLakeshoreOp))

\* the trace up to the append of row k (the whole trace without such a row)
UpToRow(tr, k) ==
    LET at == {j \in DOMAIN tr : tr[j].op = "append" /\ tr[j].val = k}
    IN IF at = {} THEN tr ELSE SubSeq(tr, 1, MinOf(at))

\* the temperature queries of step k of the first call
FirstLakeshoreOps(k) ==
    LakeshoreOps(UpToRow(script.trace, k))
      - (IF k = 1 THEN 0 ELSE LakeshoreOps(UpToRow(script.trace, k - 1)))

\* the SMU whose measurement a position of the sweep makes
MeasuredAt(at) ==
    CASE at = "meas_drain" -> "drain" [] at = "meas_bulk" -> "bulk"
      [] at = "meas_sub" -> "sub" [] OTHER -> "gate"

\* a step of the second call in which the instruments answer as they did
\* in the first: the write that raised there raises here, the measurements
\* that failed there fail here, the temperature reads that failed there
\* fail here
SameResponses ==
    /\ pc' = "raised" =>
          /\ script.pc = "raised"
          /\ exc'.cls = script.exc.cls
          /\ InstrumentOps(trace') = InstrumentOps(script.trace)
    /\ (pc' # "raised" /\ script.pc = "raised") =>
          InstrumentOps(trace') <= InstrumentOps(script.trace)
    /\ pc \in {"meas_drain", "meas_bulk", "meas_sub", "meas_gate"} =>
          (<<idx, MeasuredAt(pc)>> \in failed') = (<<idx, MeasuredAt(pc)>> \in script.failed)
    /\ (pc = "temp" /\ idx <= Len(script.data)) =>
          /\ (loc'.tempA = None) = (Field(script.data[idx], "TempA") = None)
          /\ LakeshoreOps(trace') - LakeshoreOps(trace) = FirstLakeshoreOps(idx)

\* a step of the first call
FirstCallStep ==
    /\ ~script.recorded
    /\ Next

\* the first call is over: what it did is kept and the call is made again
\* without the live plot
CallAgain ==
    /\ ~script.recorded
    /\ pc \in {"done", "raised"}
    /\ script' = [recorded |-> TRUE, pc |-> pc, idx |-> idx, data |-> data,
                  trace |-> trace, failed |-> failed, exc |-> exc]
    /\ args' = [args EXCEPT !.live_plot = FALSE]
    /\ pc' = "start"
    /\ idx' = 1
    /\ data' = <<>>
    /\ loc' = NoLocals
    /\ trace' = <<>>
    /\ stdout' = <<>>
    /\ nfail' = 0
    /\ failed' = {}
    /\ exc' = NotRaised
    /\ UNCHANGED <<call, result, bias, bench>>

\* a step of the second call
SecondCallStep ==
    /\ script.recorded
    /\ Next
    /\ SameResponses

NextPlot ==
    \/ FirstCallStep
    \/ CallAgain
    \/ SecondCallStep

SpecPlot == InitPlot /\ [][NextPlot]_vars

\* --------------------------------------------------------------- C29
\* both calls are over
BothCallsOver == script.recorded /\ pc \in {"done", "raised"}

\* a row without its elapsed time
WithoutElapsed(row) == SubSeq(row, 1, ColIndex("Elapsed_time") - 1)

\* the two calls made the same writes and queries in the same order, with
\* the same sleeps and appends between them, and ended alike
SameAcquisition ==
    /\ Acquisition(trace) = Acquisition(script.trace)
    /\ pc = script.pc
    /\ exc = script.exc
    /\ Len(data) = Len(script.data)

\* C29 (as claimed): for the same arguments and the same instrument
\* responses, the sweep with live_plot True and the sweep with live_plot
\* False issue the same sequence of instrument writes and queries and
\* return the same rows.
C29_SameRowsWithPlot ==
    BothCallsOver => (SameAcquisition /\ data = script.data)

\* C29 (amended): for the same arguments and the same instrument
\* responses, the sweep with live_plot True and the sweep with live_plot
\* False issue the same sequence of instrument writes and queries and
\* return rows that are equal in every column but Elapsed_time, the clock
\* reading, which the time spent on the figure delays.
C29_SameRowsButElapsed ==
    BothCallsOver =>
        /\ SameAcquisition
        /\ \A i \in DOMAIN data : WithoutElapsed(data[i]) = WithoutElapsed(script.data[i])
        /\ \A i \in DOMAIN data :
              (Field(data[i], "Elapsed_time") = None)
                 = (Field(script.data[i], "Elapsed_time") = None)

\* C29 witness: both calls returned two rows, a drain measurement failed
\* in the first step of each and the temperatures were recorded in the
\* second, with different elapsed times
C29_Witness ==
    /\ BothCallsOver
    /\ pc = "done"
    /\ ~args.live_plot
    /\ Len(data) = 2
    /\ Len(script.trace) > Len(trace)
    /\ <<1, "drain">> \in failed
    /\ Field(data[2], "TempA") # None
    /\ Field(data[2], "Elapsed_time") # Field(script.data[2], "Elapsed_time")

====
